---- MODULE Spec2Model ----
(***************************************************************************)
(* Model of the indexing core of safe-transaction-service:                 *)
(*   history/models.py                    (tables, querysets, managers)    *)
(*   history/indexers/internal_tx_indexer.py  (InternalTxIndexer)          *)
(*                                                                         *)
(* The specifications share the variables:                                 *)
(*   SpecRegistry  the monitored-address cursors (update_addresses)        *)
(*   SpecFind      trace discovery (find_relevant_elements)                *)
(*   SpecIndex     trace persistence and decoding (process_elements)       *)
(*   SpecAtomic    process_elements statement by statement, with failures  *)
(*   SpecBlocks    the block store under concurrent tasks                  *)
(*   SpecStatus    the SafeStatus snapshots (store_new, last_for_address)  *)
(*   SpecReorg     indexing, reorgs of the node's chain, the reorg handler *)
(*   SpecQuery     the registry query almost_updated                       *)
(*   SpecProvider  the indexer the provider builds, by setting             *)
(*   SpecLedger    trace discovery against a node answering from a ledger  *)
(*   SpecProcessor the indexer and the processor over a chain of Safe calls*)
(*   SpecTrace     the conversion of a trace (build_from_trace)            *)
(*   SpecTransfers the stored logs and the token transfer queries          *)
(*   SpecEvents    get_or_create_erc20_or_721_event                        *)
(*   SpecThreshold with_confirmations_required over two Safes              *)
(*   SpecConcurrent two indexer tasks in process_elements at once          *)
(*   SpecCursor    the registry operations on the cursor tx_block_number   *)
(*   SpecMined     EthereumTx.update_with_block_and_receipt                *)
(***************************************************************************)
EXTENDS Integers, Sequences, FiniteSets

VARIABLES
    registry,      \* monitored rows: address -> field -> cursor (nullable)
    reg_call,      \* the last update_addresses call, its arguments and result
    node,          \* the tracing node's answers to the discovery queries
    fre,           \* the last find_relevant_elements call and its outcome
    chain,         \* the mined transactions and their trace frames
    ethereum_txs,  \* table EthereumTx
    internal_txs,  \* table InternalTx
    decoded_txs,   \* table InternalTxDecoded
    safe_contracts, \* table SafeContract (the addresses)
    batch_task,    \* a process_elements call in flight: position, write set
    blocks,        \* table EthereumBlock
    block_tasks,   \* the get_or_create_from_block calls in flight, per task
    live,          \* the node's chain: its head and the block at each number
    reorg_task,    \* the reorg handler's tick: position and blocks to examine
    safe_statuses, \* table SafeStatus
    multisig_txs,  \* table MultisigTransaction
    multisig_confirmations, \* table MultisigConfirmation
    module_txs,    \* table ModuleTransaction
    processor_task, \* the processor's run: position, queue, open transaction
    ethereum_events, \* table EthereumEvent
    index_tasks,   \* the process_elements calls of concurrent indexer tasks
    method_call    \* the last call of a model or manager method: arguments, outcome

registryVars == <<registry, reg_call>>

findVars == <<node, fre>>

indexVars == <<chain, ethereum_txs, internal_txs, decoded_txs, safe_contracts>>

batchVars == <<batch_task>>

blockVars == <<blocks, block_tasks>>

reorgVars == <<live, reorg_task>>

processorVars ==
    <<safe_statuses, multisig_txs, multisig_confirmations, module_txs, processor_task>>

eventVars == <<ethereum_events>>

callVars == <<method_call>>

concurrentVars == <<index_tasks>>

vars == <<registryVars, findVars, indexVars, batchVars, blockVars, reorgVars,
          processorVars, eventVars, callVars, concurrentVars>>

(***************************************************************************)
(* Nullable column values: <<>> is NULL, <<v>> is the value v.             *)
(***************************************************************************)
NULL == <<>>

Some(v) == <<v>>

IsNull(x) == x = <<>>

Val(x) == x[1]

Max(a, b) == IF a >= b THEN a ELSE b

(***************************************************************************)
(* Monitored-address registry (MonitoredAddress, SafeContract).            *)
(***************************************************************************)
MaxBlock == 2

Addresses == {"0xA", "0xB"}

Fields == {"tx_block_number", "erc20_block_number"}

Blocks == 0..MaxBlock

\* tx_block_number is null=True (models.py:772); erc20_block_number is not
\* nullable (models.py:804).
CursorValues(field) ==
    IF field = "tx_block_number"
    THEN {NULL} \cup {Some(b) : b \in Blocks}
    ELSE {Some(b) : b \in Blocks}

NoRegCall ==
    [op |-> "none", addresses |-> {}, from_block_number |-> 0,
     block_number |-> 0, database_field |-> "tx_block_number",
     before |-> [a \in Addresses |-> [f \in Fields |-> NULL]], returned |-> 0]

\* A plausible slip: the cursor is not compared with the window at all.
MutFilterNoReorgGuard(reg, addresses, from_block_number, database_field) ==
    {a \in Addresses : a \in addresses /\ ~IsNull(reg[a][database_field])}

\* A plausible slip: the window starts at from_block_number itself.
MutFilterOffByOne(reg, addresses, from_block_number, database_field) ==
    {a \in Addresses :
        /\ a \in addresses
        /\ ~IsNull(reg[a][database_field])
        /\ Val(reg[a][database_field]) >= from_block_number}

\* filter(address__in=addresses, <field>__gte=from_block_number - 1):
\* a NULL cursor compares as unknown and is not selected.
UpdateFilter(reg, addresses, from_block_number, database_field) ==
    {a \in Addresses :
        /\ a \in addresses
        /\ ~IsNull(reg[a][database_field])
        /\ Val(reg[a][database_field]) >= from_block_number - 1}

\* MonitoredAddressManager.update_addresses: one UPDATE statement.
update_addresses(addresses, from_block_number, block_number, database_field) ==
    LET hit == UpdateFilter(registry, addresses, from_block_number, database_field)
    IN  /\ registry' = [a \in Addresses |->
                          IF a \in hit
                          THEN [registry[a] EXCEPT ![database_field] = Some(block_number)]
                          ELSE registry[a]]
        /\ reg_call' = [op |-> "update_addresses",
                        addresses |-> addresses,
                        from_block_number |-> from_block_number,
                        block_number |-> block_number,
                        database_field |-> database_field,
                        before |-> registry,
                        returned |-> Cardinality(hit)]

UpdateAddresses ==
    \E addresses \in SUBSET Addresses, database_field \in Fields,
       from_block_number \in Blocks :
      \E block_number \in from_block_number..MaxBlock :
        /\ update_addresses(addresses, from_block_number, block_number, database_field)
        /\ UNCHANGED <<findVars, eventVars, callVars, concurrentVars, reorgVars, processorVars, indexVars, batchVars, blockVars>>

\* MonitoredAddressQuerySet.almost_updated:
\* filter(<field>__lt=current_block_number - confirmations,
\*        <field>__gt=current_block_number - updated_blocks_behind);
\* a NULL cursor is not selected.
almost_updated(reg, database_field, current_block_number, updated_blocks_behind, confirmations) ==
    {a \in Addresses :
        /\ ~IsNull(reg[a][database_field])
        /\ Val(reg[a][database_field]) < current_block_number - confirmations
        /\ Val(reg[a][database_field]) > current_block_number - updated_blocks_behind}

\* One almost_updated query: its arguments and the rows it returned.
AlmostUpdated ==
    /\ \E database_field \in Fields, current_block_number \in 0..(MaxBlock + 1),
          updated_blocks_behind \in 0..(MaxBlock + 1), confirmations \in 0..1 :
         reg_call' = [op |-> "almost_updated",
                      database_field |-> database_field,
                      current_block_number |-> current_block_number,
                      updated_blocks_behind |-> updated_blocks_behind,
                      confirmations |-> confirmations,
                      returned |-> almost_updated(registry, database_field,
                                                  current_block_number,
                                                  updated_blocks_behind, confirmations)]
    /\ UNCHANGED <<registry, findVars, eventVars, callVars, concurrentVars, reorgVars, processorVars, indexVars, batchVars,
                   blockVars>>

\* A plausible slip: a NULL cursor counts as block 0, before every block.
MutNotUpdatedNullIsZero(reg, database_field, current_block_number, confirmations) ==
    {a \in Addresses :
        (IF IsNull(reg[a][database_field]) THEN 0 ELSE Val(reg[a][database_field]))
            < current_block_number - confirmations}

\* MonitoredAddressQuerySet.not_updated:
\* filter(<field>__lt=current_block_number - confirmations);
\* a NULL cursor is not selected.
not_updated(reg, database_field, current_block_number, confirmations) ==
    {a \in Addresses :
        /\ ~IsNull(reg[a][database_field])
        /\ Val(reg[a][database_field]) < current_block_number - confirmations}

\* One not_updated query: its arguments and the rows it returned.
NotUpdated ==
    /\ \E database_field \in Fields, current_block_number \in 0..(MaxBlock + 1),
          confirmations \in 0..1 :
         reg_call' = [op |-> "not_updated",
                      database_field |-> database_field,
                      current_block_number |-> current_block_number,
                      confirmations |-> confirmations,
                      returned |-> not_updated(registry, database_field,
                                               current_block_number, confirmations)]
    /\ UNCHANGED <<registry, findVars, eventVars, callVars, concurrentVars, reorgVars, processorVars, indexVars, batchVars,
                   blockVars>>

(***************************************************************************)
(* Trace discovery: InternalTxIndexer.find_relevant_elements.              *)
(*                                                                         *)
(* The node is scripted: node.answers holds the traces it returns, each    *)
(* addressed to the RPC call (and, for trace_blocks, the block) it answers,*)
(* and node.fail_at is the RPC call that raises RequestException (0: none).*)
(***************************************************************************)
number_trace_blocks == 10

MaxAnswers == 2

\* Traces the node can return: 0x01 sent by 0xA, 0x02 received by 0xB,
\* 0x03 touching neither monitored address.
DiscoveryTraces ==
    { [transactionHash |-> "0x01", from |-> "0xA", to |-> "0xC"],
      [transactionHash |-> "0x02", from |-> "0xC", to |-> "0xB"],
      [transactionHash |-> "0x03", from |-> "0xC", to |-> "0xC"] }

\* The head the node reports when the caller passes none.
ClientHead == number_trace_blocks + 1

\* Heads passed by the caller: trace_block_number ranges over 0..MaxBlock+1.
Heads == (number_trace_blocks - 1)..(number_trace_blocks + MaxBlock + 1)

Range(s) == {s[i] : i \in 1..Len(s)}

RECURSIVE Concat(_)
Concat(ss) == IF ss = <<>> THEN <<>> ELSE Head(ss) \o Concat(Tail(ss))

\* list(range(from_block_number, to_block_number + 1))
BlockRange(from_block_number, to_block_number) ==
    [i \in 1..Max(to_block_number - from_block_number + 1, 0) |->
        from_block_number + i - 1]

\* A plausible slip: the list is returned as collected.
MutKeepDuplicates(keys) == keys

\* OrderedDict.fromkeys(keys).keys(): the keys in first-occurrence order.
RECURSIVE OrderedKeys(_)
OrderedKeys(keys) ==
    IF keys = <<>> THEN <<>>
    ELSE <<Head(keys)>> \o
         OrderedKeys(SelectSeq(Tail(keys), LAMBDA k : k # Head(keys)))

Hashes(traces) == [i \in 1..Len(traces) |-> traces[i].transactionHash]

\* The node's answer to RPC call number `call` about block `block` (0 for
\* trace_filter, which answers for its whole range at once).
Answer(nd, call, block) ==
    LET mine == SelectSeq(nd.answers, LAMBDA a : a.call = call /\ a.block = block)
    IN  [i \in 1..Len(mine) |-> mine[i].trace]

\* parity.trace_filter(from_block, to_block, to_address= / from_address=)
TraceFilterCall(nd, call, addresses, from_block, to_block, param) ==
    [method |-> "trace_filter", from_block |-> from_block, to_block |-> to_block,
     param |-> param, addresses |-> addresses,
     block_numbers |-> <<>>,
     failed |-> nd.fail_at = call,
     answer |-> IF nd.fail_at = call THEN <<>> ELSE <<Answer(nd, call, 0)>>]

\* parity.trace_blocks(block_numbers): one trace list per block
TraceBlocksCall(nd, call, block_numbers) ==
    [method |-> "trace_blocks", from_block |-> 0, to_block |-> 0,
     param |-> "", addresses |-> {},
     block_numbers |-> block_numbers,
     failed |-> nd.fail_at = call,
     answer |-> IF nd.fail_at = call THEN <<>>
                ELSE [i \in 1..Len(block_numbers) |->
                        Answer(nd, call, block_numbers[i])]]

\* A plausible slip: only the sender of a trace is looked at.
MutRelevantSenderOnly(trace, addresses) == trace.from \in addresses

\* trace.get('action', {}).get('from') in addresses or ... .get('to') in addresses
IsRelevant(trace, addresses) ==
    trace.from \in addresses \/ trace.to \in addresses

\* What a discovery strategy hands back: the RPC calls it made, whether it
\* raised FindRelevantElementsException, and the tx hashes it returned.
Raised(log) == [log |-> log, raised |-> TRUE, tx_hashes |-> <<>>]

Returned(log, tx_hashes) == [log |-> log, raised |-> FALSE, tx_hashes |-> tx_hashes]

\* `first` is the number of RPC calls made before this one starts.
_find_relevant_elements_using_trace_block(nd, first, addresses, from_block_number, to_block_number) ==
    LET block_numbers == BlockRange(from_block_number, to_block_number)
        rpc == TraceBlocksCall(nd, first + 1, block_numbers)
        traces == rpc.answer
        tx_hashes == Concat([i \in 1..Len(traces) |->
                        Hashes(SelectSeq(traces[i],
                                         LAMBDA t : IsRelevant(t, addresses)))])
    IN  IF rpc.failed THEN Raised(<<rpc>>)
        ELSE Returned(<<rpc>>, OrderedKeys(tx_hashes))

_find_relevant_elements_using_trace_filter(nd, first, addresses, from_block_number, to_block_number) ==
    LET to_rpc == TraceFilterCall(nd, first + 1, addresses, from_block_number,
                                  to_block_number, "to_address")
        from_rpc == TraceFilterCall(nd, first + 2, addresses, from_block_number,
                                    to_block_number, "from_address")
    IN  IF to_rpc.failed THEN Raised(<<to_rpc>>)
        ELSE IF from_rpc.failed THEN Raised(<<to_rpc, from_rpc>>)
        ELSE Returned(<<to_rpc, from_rpc>>,
                      OrderedKeys(Hashes(to_rpc.answer[1] \o from_rpc.answer[1])))

\* current_block_number or self.ethereum_client.current_block_number
EffectiveHead(nd, current_block_number) ==
    IF IsNull(current_block_number) \/ Val(current_block_number) = 0
    THEN nd.current_block_number
    ELSE Val(current_block_number)

\* A plausible slip: the recent range starts at the head itself.
MutTraceBlockNumberNoOffset(nd, current_block_number) ==
    Max(EffectiveHead(nd, current_block_number), 0)

\* max(current_block_number - self.number_trace_blocks, 0)
TraceBlockNumber(nd, current_block_number) ==
    Max(EffectiveHead(nd, current_block_number) - number_trace_blocks, 0)

\* A plausible slip: a failure of the second query keeps the first one's hashes.
MutHybridKeepsPartial(nd, addresses, from_block_number, to_block_number, trace_block_number) ==
    LET f == _find_relevant_elements_using_trace_filter(
                 nd, 0, addresses, from_block_number, trace_block_number)
        b == _find_relevant_elements_using_trace_block(
                 nd, Len(f.log), addresses, trace_block_number, to_block_number)
    IN  IF f.raised THEN f
        ELSE IF b.raised THEN Returned(f.log \o b.log, f.tx_hashes)
        ELSE Returned(f.log \o b.log, OrderedKeys(f.tx_hashes \o b.tx_hashes))

\* A plausible slip: the recent hashes are put before the older ones.
MutHybridBlockFirst(nd, addresses, from_block_number, to_block_number, trace_block_number) ==
    LET f == _find_relevant_elements_using_trace_filter(
                 nd, 0, addresses, from_block_number, trace_block_number)
        b == _find_relevant_elements_using_trace_block(
                 nd, Len(f.log), addresses, trace_block_number, to_block_number)
    IN  IF f.raised THEN f
        ELSE IF b.raised THEN Raised(f.log \o b.log)
        ELSE Returned(f.log \o b.log, OrderedKeys(b.tx_hashes \o f.tx_hashes))

\* A plausible slip: the recent range starts after trace_block_number.
MutHybridSkipsBoundary(nd, addresses, from_block_number, to_block_number, trace_block_number) ==
    LET f == _find_relevant_elements_using_trace_filter(
                 nd, 0, addresses, from_block_number, trace_block_number - 1)
        b == _find_relevant_elements_using_trace_block(
                 nd, Len(f.log), addresses, trace_block_number + 1, to_block_number)
    IN  IF f.raised THEN f
        ELSE IF b.raised THEN Raised(f.log \o b.log)
        ELSE Returned(f.log \o b.log, OrderedKeys(f.tx_hashes \o b.tx_hashes))

\* trace_filter over [from, trace_block_number], then trace_block over
\* [trace_block_number, to]; an exception of the first ends the call.
HybridElements(nd, addresses, from_block_number, to_block_number, trace_block_number) ==
    LET f == _find_relevant_elements_using_trace_filter(
                 nd, 0, addresses, from_block_number, trace_block_number)
        b == _find_relevant_elements_using_trace_block(
                 nd, Len(f.log), addresses, trace_block_number, to_block_number)
    IN  IF f.raised THEN f
        ELSE IF b.raised THEN Raised(f.log \o b.log)
        ELSE Returned(f.log \o b.log, OrderedKeys(f.tx_hashes \o b.tx_hashes))

\* InternalTxIndexer.find_relevant_elements
find_relevant_elements(nd, addresses, from_block_number, to_block_number, current_block_number) ==
    LET trace_block_number == TraceBlockNumber(nd, current_block_number)
    IN  IF from_block_number > trace_block_number
        THEN _find_relevant_elements_using_trace_block(
                 nd, 0, addresses, from_block_number, to_block_number)
        ELSE IF to_block_number < trace_block_number
        THEN _find_relevant_elements_using_trace_filter(
                 nd, 0, addresses, from_block_number, to_block_number)
        ELSE HybridElements(nd, addresses, from_block_number, to_block_number,
                            trace_block_number)

\* A plausible slip: the variant keeps the strategy of the class it extends.
MutVariantKeepsStrategy(nd, addresses, from_block_number, to_block_number, current_block_number) ==
    find_relevant_elements(nd, addresses, from_block_number, to_block_number,
                           current_block_number)

\* InternalTxIndexerWithTraceBlock.find_relevant_elements
WithTraceBlock_find_relevant_elements(nd, addresses, from_block_number, to_block_number, current_block_number) ==
    LET trace_block_number == TraceBlockNumber(nd, current_block_number)
    IN  _find_relevant_elements_using_trace_block(
            nd, 0, addresses, from_block_number, to_block_number)

\* InternalTxIndexerProvider: the class of the indexer instance
InternalTxIndexerProvider(ETH_INTERNAL_NO_FILTER) ==
    IF ETH_INTERNAL_NO_FILTER THEN "InternalTxIndexerWithTraceBlock"
    ELSE "InternalTxIndexer"

\* find_relevant_elements of the instance the provider returned
ProvidedFindRelevantElements(indexer, nd, addresses, from_block_number, to_block_number, current_block_number) ==
    IF indexer = "InternalTxIndexerWithTraceBlock"
    THEN WithTraceBlock_find_relevant_elements(
             nd, addresses, from_block_number, to_block_number, current_block_number)
    ELSE find_relevant_elements(
             nd, addresses, from_block_number, to_block_number, current_block_number)

\* The (call, block) places a trace can be returned at, for the RPC calls of `log`.
Slots(log) ==
    UNION { IF log[i].method = "trace_filter"
            THEN {<<i, 0>>}
            ELSE {<<i, b>> : b \in Range(log[i].block_numbers)}
          : i \in 1..Len(log) }

SlotBefore(a, b) ==
    a.call < b.call \/ (a.call = b.call /\ a.block <= b.block)

\* The node's scripts for the calls of `log`: at most MaxAnswers traces in all,
\* listed in call and block order, none after the call that fails.
AnswerScripts(log, fail_at) ==
    LET items == { [call |-> s[1], block |-> s[2], trace |-> t] :
                     s \in {x \in Slots(log) : fail_at = 0 \/ x[1] < fail_at},
                     t \in DiscoveryTraces }
    IN  { sc \in UNION { [1..n -> items] : n \in 0..MaxAnswers } :
            \A i \in 1..(Len(sc) - 1) : SlotBefore(sc[i], sc[i + 1]) }

HeadArgs == {NULL, Some(0)} \cup {Some(h) : h \in Heads}

AddressLists == (SUBSET Addresses) \ {{}}

NoFre ==
    [outcome |-> "none", addresses |-> {}, from_block_number |-> 0,
     to_block_number |-> 0, current_block_number |-> NULL,
     tx_hashes |-> <<>>, log |-> <<>>]

IdleNode == [current_block_number |-> ClientHead, answers |-> <<>>, fail_at |-> 0]

\* One call of find_relevant_elements. The RPC calls it makes do not depend on
\* the answers, so they are read off a run against a silent node and the
\* node's script is drawn for exactly those calls.
FindRelevantElements ==
    /\ fre.outcome = "none"
    /\ \E addresses \in AddressLists, from_block_number \in Blocks,
          current_block_number \in HeadArgs :
        \E to_block_number \in from_block_number..MaxBlock :
          LET calls == find_relevant_elements(IdleNode, addresses, from_block_number,
                                              to_block_number, current_block_number).log
          IN  \E fail_at \in 0..Len(calls) :
                \E answers \in AnswerScripts(calls, fail_at) :
                  LET nd == [current_block_number |-> ClientHead,
                             answers |-> answers, fail_at |-> fail_at]
                      res == find_relevant_elements(nd, addresses, from_block_number,
                                                    to_block_number, current_block_number)
                  IN  /\ node' = nd
                      /\ fre' = [outcome |-> IF res.raised
                                             THEN "FindRelevantElementsException"
                                             ELSE "returned",
                                 addresses |-> addresses,
                                 from_block_number |-> from_block_number,
                                 to_block_number |-> to_block_number,
                                 current_block_number |-> current_block_number,
                                 tx_hashes |-> res.tx_hashes,
                                 log |-> res.log]
    /\ UNCHANGED <<registryVars, eventVars, callVars, concurrentVars, indexVars, batchVars, blockVars, reorgVars, processorVars>>

\* One call of find_relevant_elements on the indexer the provider builds
\* under the setting ETH_INTERNAL_NO_FILTER.
ProviderFindRelevantElements ==
    /\ fre.outcome = "none"
    /\ \E ETH_INTERNAL_NO_FILTER \in BOOLEAN, addresses \in AddressLists,
          from_block_number \in Blocks, current_block_number \in HeadArgs :
        \E to_block_number \in from_block_number..MaxBlock :
          LET indexer == InternalTxIndexerProvider(ETH_INTERNAL_NO_FILTER)
              calls == ProvidedFindRelevantElements(
                           indexer, IdleNode, addresses, from_block_number,
                           to_block_number, current_block_number).log
          IN  \E fail_at \in 0..Len(calls) :
                \E answers \in AnswerScripts(calls, fail_at) :
                  LET nd == [current_block_number |-> ClientHead,
                             answers |-> answers, fail_at |-> fail_at]
                      res == ProvidedFindRelevantElements(
                                 indexer, nd, addresses, from_block_number,
                                 to_block_number, current_block_number)
                  IN  /\ node' = nd
                      /\ fre' = [outcome |-> IF res.raised
                                             THEN "FindRelevantElementsException"
                                             ELSE "returned",
                                 addresses |-> addresses,
                                 from_block_number |-> from_block_number,
                                 to_block_number |-> to_block_number,
                                 current_block_number |-> current_block_number,
                                 tx_hashes |-> res.tx_hashes,
                                 log |-> res.log,
                                 ETH_INTERNAL_NO_FILTER |-> ETH_INTERNAL_NO_FILTER,
                                 indexer |-> indexer]
    /\ UNCHANGED <<registryVars, eventVars, callVars, concurrentVars, indexVars, batchVars, blockVars, reorgVars, processorVars>>

\* A node that answers from one ledger. The traces of the ledger, in the
\* order the node lists them: 0x01 has two frames, the second one between
\* the two monitored addresses.
LedgerListing ==
    << [transactionHash |-> "0x01", from |-> "0xA", to |-> "0xC"],
       [transactionHash |-> "0x01", from |-> "0xB", to |-> "0xA"],
       [transactionHash |-> "0x02", from |-> "0xC", to |-> "0xB"],
       [transactionHash |-> "0x03", from |-> "0xC", to |-> "0xC"] >>

\* The block of each transaction, NULL for a transaction not mined.
Ledgers ==
    [{LedgerListing[i].transactionHash : i \in 1..Len(LedgerListing)}
        -> {NULL} \cup {Some(b) : b \in Blocks}]

\* trace_block(block): every trace of the block
LedgerBlock(ledger, block) ==
    SelectSeq(LedgerListing, LAMBDA t : ledger[t.transactionHash] = Some(block))

\* trace_filter(from_block, to_block, to_address= / from_address=): the
\* traces of the range whose recipient / sender is one of the addresses
LedgerFilter(ledger, rpc) ==
    LET blocks_ == BlockRange(rpc.from_block, rpc.to_block)
        all == Concat([i \in 1..Len(blocks_) |-> LedgerBlock(ledger, blocks_[i])])
    IN  SelectSeq(all, LAMBDA t : IF rpc.param = "to_address"
                                  THEN t.to \in rpc.addresses
                                  ELSE t.from \in rpc.addresses)

\* The answers of the node to the RPC calls of `log`.
LedgerAnswers(ledger, log) ==
    Concat([i \in 1..Len(log) |->
        IF log[i].method = "trace_filter"
        THEN LET found == LedgerFilter(ledger, log[i])
             IN  [j \in 1..Len(found) |-> [call |-> i, block |-> 0, trace |-> found[j]]]
        ELSE Concat([k \in 1..Len(log[i].block_numbers) |->
                 LET found == LedgerBlock(ledger, log[i].block_numbers[k])
                 IN  [j \in 1..Len(found) |->
                        [call |-> i, block |-> log[i].block_numbers[k],
                         trace |-> found[j]]]])])

LedgerNode(ledger, log) ==
    [current_block_number |-> ClientHead, answers |-> LedgerAnswers(ledger, log),
     fail_at |-> 0, ledger |-> ledger]

\* One call of find_relevant_elements against a node that answers from its
\* ledger and does not fail.
LedgerFindRelevantElements ==
    /\ fre.outcome = "none"
    /\ \E ledger \in Ledgers, addresses \in AddressLists,
          from_block_number \in Blocks, current_block_number \in HeadArgs :
        \E to_block_number \in from_block_number..MaxBlock :
          LET calls == find_relevant_elements(IdleNode, addresses, from_block_number,
                                              to_block_number, current_block_number).log
              nd == LedgerNode(ledger, calls)
              res == find_relevant_elements(nd, addresses, from_block_number,
                                            to_block_number, current_block_number)
          IN  /\ node' = nd
              /\ fre' = [outcome |-> "returned",
                         addresses |-> addresses,
                         from_block_number |-> from_block_number,
                         to_block_number |-> to_block_number,
                         current_block_number |-> current_block_number,
                         tx_hashes |-> res.tx_hashes,
                         log |-> res.log]
    /\ UNCHANGED <<registryVars, eventVars, callVars, concurrentVars, indexVars, batchVars, blockVars, reorgVars, processorVars>>

(***************************************************************************)
(* Strings. A CharField value is the sequence of its characters.           *)
(***************************************************************************)
DigitChars == <<"0", "1", "2", "3", "4", "5", "6", "7", "8", "9">>

LowerLetters ==
    <<"a", "b", "c", "d", "e", "f", "g", "h", "i", "j", "k", "l", "m",
      "n", "o", "p", "q", "r", "s", "t", "u", "v", "w", "x", "y", "z">>

UpperLetters ==
    <<"A", "B", "C", "D", "E", "F", "G", "H", "I", "J", "K", "L", "M",
      "N", "O", "P", "Q", "R", "S", "T", "U", "V", "W", "X", "Y", "Z">>

UpperSet == {UpperLetters[k] : k \in 1..Len(UpperLetters)}

LowerSet == {LowerLetters[k] : k \in 1..Len(LowerLetters)}

\* The lower-case letter of each upper-case letter.
ToLower ==
    [c \in UpperSet |->
        LowerLetters[CHOOSE k \in 1..Len(UpperLetters) : UpperLetters[k] = c]]

\* The upper-case letter of each lower-case letter.
ToUpper ==
    [c \in LowerSet |->
        UpperLetters[CHOOSE k \in 1..Len(LowerLetters) : LowerLetters[k] = c]]

\* str.lower()
lower(s) ==
    [i \in 1..Len(s) |-> IF s[i] \in UpperSet THEN ToLower[s[i]] ELSE s[i]]

\* str.upper()
upper(s) ==
    [i \in 1..Len(s) |-> IF s[i] \in LowerSet THEN ToUpper[s[i]] ELSE s[i]]

\* 'call'
CallStr == <<"c", "a", "l", "l">>

\* 'delegatecall'
DelegatecallStr == <<"d", "e", "l", "e", "g", "a", "t", "e", "c", "a", "l", "l">>

\* 'delegatecode'
DelegatecodeStr == <<"d", "e", "l", "e", "g", "a", "t", "e", "c", "o", "d", "e">>

\* 'CALL'
CALLStr == <<"C", "A", "L", "L">>

\* 'CREATE'
CREATEStr == <<"C", "R", "E", "A", "T", "E">>

\* 'SUICIDE'
SUICIDEStr == <<"S", "U", "I", "C", "I", "D", "E">>

\* str(n) for n >= 0
RECURSIVE IntToStr(_)
IntToStr(n) ==
    IF n < 10 THEN <<DigitChars[n + 1]>>
    ELSE IntToStr(n \div 10) \o <<DigitChars[(n % 10) + 1]>>

\* ','.join(parts)
RECURSIVE Join(_)
Join(parts) ==
    IF parts = <<>> THEN <<>>
    ELSE IF Len(parts) = 1 THEN parts[1]
    ELSE parts[1] \o <<",">> \o Join(Tail(parts))

\* InternalTxManager._trace_address_to_str
_trace_address_to_str(trace_address) ==
    Join([i \in 1..Len(trace_address) |-> IntToStr(trace_address[i])])

\* child__startswith=F('trace_address'): `prefix` starts the string `s`
StartsWith(s, prefix) ==
    Len(prefix) <= Len(s) /\ SubSeq(s, 1, Len(prefix)) = prefix

\* Code points of the characters of a trace_address (',' sorts before digits).
CharCode(c) ==
    IF c = "," THEN 44
    ELSE 48 + (CHOOSE d \in 0..9 : DigitChars[d + 1] = c)

\* ORDER BY on a CharField: s sorts strictly before t
RECURSIVE StrLess(_, _)
StrLess(s, t) ==
    IF t = <<>> THEN FALSE
    ELSE IF s = <<>> THEN TRUE
    ELSE IF CharCode(Head(s)) # CharCode(Head(t))
         THEN CharCode(Head(s)) < CharCode(Head(t))
    ELSE StrLess(Tail(s), Tail(t))

(***************************************************************************)
(* The chain: the mined transactions and the trace frames of each, as      *)
(* parity.trace_transaction reports them.                                  *)
(***************************************************************************)
MaxFrames == 2

\* Listed in hash order; 0xaa was mined after 0xbb.
TxHashes == <<"0xaa", "0xbb">>

TxBlock(tx_hash) == IF tx_hash = "0xaa" THEN 2 ELSE 1

TxIndex(tx_hash) == 0

TraceAddresses == {<<>>, <<1>>, <<1, 0>>, <<2>>, <<10>>}

SetupCalldata == "0xb63e800d"

UnknownCalldata == "0xdeadbeef"

ExecCalldata == "0x6a761202"

ModuleCalldata == "0x468721a7"

\* setup with another list of owners and another threshold
SetupCalldata2 == "0xb63e800d02"

\* What a frame can be: a delegate call to the master copy (decodable, not
\* decodable, errored, without calldata) or a plain call.
TraceBodies ==
    { [type |-> "call", callType |-> "delegatecall", from |-> "0x5afe", to |-> "0x3a57",
       input |-> SetupCalldata, error |-> NULL],
      [type |-> "call", callType |-> "delegatecall", from |-> "0x5afe", to |-> "0x3a57",
       input |-> UnknownCalldata, error |-> NULL],
      [type |-> "call", callType |-> "delegatecall", from |-> "0x5afe", to |-> "0x3a57",
       input |-> SetupCalldata, error |-> Some("Reverted")],
      [type |-> "call", callType |-> "call", from |-> "0xe0a", to |-> "0x5afe",
       input |-> SetupCalldata, error |-> NULL],
      [type |-> "call", callType |-> "delegatecall", from |-> "0x5afe", to |-> "0x3a57",
       input |-> "", error |-> NULL] }

Trace(tx_hash, trace_address, body) ==
    [transactionHash |-> tx_hash, traceAddress |-> trace_address,
     type |-> body.type, callType |-> body.callType, from |-> body.from,
     to |-> body.to, input |-> body.input, error |-> body.error]

\* traceAddress order within a transaction: lexicographic over the integers
RECURSIVE IntSeqLess(_, _)
IntSeqLess(a, b) ==
    IF b = <<>> THEN FALSE
    ELSE IF a = <<>> THEN TRUE
    ELSE IF Head(a) # Head(b) THEN Head(a) < Head(b)
    ELSE IntSeqLess(Tail(a), Tail(b))

HashRank(tx_hash) == CHOOSE i \in 1..Len(TxHashes) : TxHashes[i] = tx_hash

\* Frame f comes before frame g in the node's listing.
TraceBefore(f, g) ==
    \/ HashRank(f.transactionHash) < HashRank(g.transactionHash)
    \/ /\ f.transactionHash = g.transactionHash
       /\ IntSeqLess(f.traceAddress, g.traceAddress)

\* Every frame the node can report.
Traces ==
    { Trace(h, ta, b) : h \in Range(TxHashes), ta \in TraceAddresses, b \in TraceBodies }

\* Every chain of at most MaxFrames frames, one frame per traceAddress.
TraceListings ==
    LET frames == Traces
    IN  { l \in UNION { [1..n -> frames] : n \in 0..MaxFrames } :
            \A i \in 1..(Len(l) - 1) : TraceBefore(l[i], l[i + 1]) }

\* Receipt status of each transaction: all succeed, or 0xaa reverts.
Statuses ==
    { [h \in Range(TxHashes) |-> 1],
      [h \in Range(TxHashes) |-> IF h = "0xaa" THEN 0 ELSE 1] }

Chains == { [status |-> st, traces |-> l] : st \in Statuses, l \in TraceListings }

\* parity.trace_transactions(tx_hashes): the frames of each transaction
trace_transactions(tx_hashes) ==
    [i \in 1..Len(tx_hashes) |->
        SelectSeq(chain.traces, LAMBDA t : t.transactionHash = tx_hashes[i])]

(***************************************************************************)
(* Tables EthereumTx, InternalTx, InternalTxDecoded.                       *)
(***************************************************************************)
CALL == 0

DELEGATE_CALL == 1

\* A plausible slip: delegatecode is not a known call type.
MutParseCallTypeNoDelegatecode(call_type) ==
    LET call_type_lower == lower(call_type)
    IN  IF call_type = <<>> THEN NULL
        ELSE IF call_type_lower = CallStr THEN Some(CALL)
        ELSE IF call_type_lower = DelegatecallStr THEN Some(DELEGATE_CALL)
        ELSE NULL

\* EthereumTxCallType.parse_call_type, as a nullable column value; the empty
\* sequence is the call type that is None or ''
parse_call_type(call_type) ==
    LET call_type_lower == lower(call_type)
    IN  IF call_type = <<>> THEN NULL
        ELSE IF call_type_lower = CallStr THEN Some(CALL)
        ELSE IF call_type_lower = DelegatecallStr THEN Some(DELEGATE_CALL)
        ELSE IF call_type_lower = DelegatecodeStr THEN Some(DELEGATE_CALL)
        ELSE NULL

\* The EthereumTx row of a mined transaction (create_from_tx_dict with its receipt).
EthereumTxRow(tx_hash) ==
    [tx_hash |-> tx_hash, block_id |-> Some(TxBlock(tx_hash)),
     transaction_index |-> Some(TxIndex(tx_hash)),
     status |-> Some(chain.status[tx_hash])]

\* IndexService.txs_create_or_update_from_tx_hashes: stores the missing
\* EthereumTx rows and returns the rows in the order of tx_hashes.
txs_create_or_update_from_tx_hashes(txs, tx_hashes) ==
    LET stored(h) == {t \in txs : t.tx_hash = h}
        row(h) == IF stored(h) # {} THEN CHOOSE t \in stored(h) : TRUE
                  ELSE EthereumTxRow(h)
    IN  [table |-> txs \cup {row(h) : h \in Range(tx_hashes)},
         rows |-> [i \in 1..Len(tx_hashes) |-> row(tx_hashes[i])]]

\* EthereumTxType
TX_CALL == 0

CREATE == 1

SELF_DESTRUCT == 2

\* EthereumTxType.parse: the member's value, or ValueError raised
parse(tx_type) ==
    LET tx_type_upper == upper(tx_type)
    IN  IF tx_type_upper = CALLStr THEN [raised |-> FALSE, value |-> TX_CALL]
        ELSE IF tx_type_upper = CREATEStr THEN [raised |-> FALSE, value |-> CREATE]
        ELSE IF tx_type_upper = SUICIDEStr THEN [raised |-> FALSE, value |-> SELF_DESTRUCT]
        ELSE [raised |-> TRUE]

\* `a or b` where a is None (NULL) or a string: None and '' are falsy
Or(a, b) == IF a = NULL \/ a = Some("") THEN b ELSE a

\* `a or b` where a is None (NULL) or a number: None and 0 are falsy
OrNumber(a, b) == IF a = NULL \/ a = Some(0) THEN b ELSE a

\* dict.get(key, default) of a key that is missing (NULL) or present
Get(value, default) == IF value = NULL THEN default ELSE value

\* InternalTxManager.build_from_trace over the trace dict of the node; a key
\* of trace['action'] that is missing is NULL. The columns of trace['result']
\* are left out.
build_from_trace(trace, ethereum_tx) ==
    LET tx_type == parse(trace.type)
        call_type == parse_call_type(trace.action.callType)
        trace_address_str == _trace_address_to_str(trace.traceAddress)
    IN  IF tx_type.raised THEN [raised |-> TRUE]
        ELSE [raised |-> FALSE,
              internal_tx |->
                  [ethereum_tx |-> ethereum_tx.tx_hash,
                   trace_address |-> trace_address_str,
                   _from |-> trace.action.from,
                   data |-> Or(trace.action.input, trace.action.init),
                   to |-> Or(trace.action.to, trace.action.address),
                   value |-> OrNumber(trace.action.value, Get(trace.action.balance, Some(0))),
                   tx_type |-> tx_type.value,
                   call_type |-> call_type,
                   error |-> trace.error]]

\* The characters of the strings the frames of the chain have as type and
\* callType.
Characters ==
    [s \in {"call", "delegatecall"} |->
        IF s = "call" THEN CallStr ELSE DelegatecallStr]

\* The dict of a frame of the chain: a call with its callType, from, to and input.
TraceDict(frame) ==
    [type |-> Characters[frame.type],
     action |-> [callType |-> Characters[frame.callType], from |-> Some(frame.from),
                 to |-> Some(frame.to), address |-> NULL, value |-> NULL,
                 balance |-> NULL, input |-> Some(frame.input), init |-> NULL],
     traceAddress |-> frame.traceAddress,
     error |-> frame.error]

\* The InternalTx row of a frame of the chain, with the columns the indexer,
\* the decoder and the processor read.
BuiltFromFrame(frame, ethereum_tx) ==
    LET internal_tx == build_from_trace(TraceDict(frame), ethereum_tx).internal_tx
    IN  [ethereum_tx |-> internal_tx.ethereum_tx,
         trace_address |-> internal_tx.trace_address,
         _from |-> internal_tx._from,
         to |-> internal_tx.to,
         data |-> internal_tx.data,
         call_type |-> internal_tx.call_type,
         error |-> internal_tx.error]

\* The rows of the frames in Traces, built once: build_from_trace reads of
\* ethereum_tx only the key that becomes the column ethereum_tx.
BuiltFromTraces ==
    [frame \in Traces |-> BuiltFromFrame(frame, [tx_hash |-> frame.transactionHash])]

\* The InternalTx row the indexer builds of a frame for its EthereumTx.
InternalTxOfFrame(frame, ethereum_tx) ==
    IF frame \in Traces
    THEN [BuiltFromTraces[frame] EXCEPT !.ethereum_tx = ethereum_tx.tx_hash]
    ELSE BuiltFromFrame(frame, ethereum_tx)

\* The unique key (ethereum_tx, trace_address) of an InternalTx row.
InternalTxKey(internal_tx) == <<internal_tx.ethereum_tx, internal_tx.trace_address>>

\* The primary key of an InternalTxDecoded row: its InternalTx.
DecodedKey(decoded) == decoded.internal_tx

\* The unique key of a row of either table.
UniqueKey(row) ==
    IF "internal_tx" \in DOMAIN row THEN DecodedKey(row) ELSE InternalTxKey(row)

\* A plausible slip: an upsert, the conflicting row is overwritten.
RECURSIVE MutBulkCreateOverwrite(_, _)
MutBulkCreateOverwrite(table, objs) ==
    IF objs = <<>> THEN table
    ELSE MutBulkCreateOverwrite(
             {r \in table : UniqueKey(r) # UniqueKey(Head(objs))} \cup {Head(objs)},
             Tail(objs))

\* bulk_create(objs, ignore_conflicts=True): INSERT ... ON CONFLICT DO NOTHING
RECURSIVE bulk_create_ignore_conflicts(_, _)
bulk_create_ignore_conflicts(table, objs) ==
    IF objs = <<>> THEN table
    ELSE bulk_create_ignore_conflicts(
             IF \E r \in table : UniqueKey(r) = UniqueKey(Head(objs))
             THEN table ELSE table \cup {Head(objs)},
             Tail(objs))

\* EthereumTx.success
success(ethereum_tx) ==
    IF IsNull(ethereum_tx.status) THEN FALSE ELSE Val(ethereum_tx.status) = 1

\* InternalTx.is_delegate_call
is_delegate_call(internal_tx) ==
    IF IsNull(internal_tx.call_type) THEN FALSE
    ELSE Val(internal_tx.call_type) = DELEGATE_CALL

\* filter(ethereum_tx=...).order_by('trace_address'): the rows of one
\* transaction in ascending order of the trace_address string.
RECURSIVE OrderByTraceAddress(_)
OrderByTraceAddress(rows) ==
    IF rows = {} THEN <<>>
    ELSE LET first == CHOOSE r \in rows :
                          \A q \in rows \ {r} : StrLess(r.trace_address, q.trace_address)
         IN  <<first>> \o OrderByTraceAddress(rows \ {first})

\* The loop of get_previous_module_trace: from position `index` of the
\* listing backwards, the first row that is not a delegate call, or NULL.
RECURSIVE PreviousCallFrom(_, _)
PreviousCallFrom(ordered, index) ==
    IF index < 1 THEN NULL
    ELSE IF ~is_delegate_call(ordered[index]) THEN Some(ordered[index])
    ELSE PreviousCallFrom(ordered, index - 1)

\* InternalTx.get_previous_module_trace: the search starts two rows before
\* this one (traces.index(self.trace_address) - 2).
get_previous_module_trace(rows, internal_tx) ==
    LET ordered == OrderByTraceAddress(
                       {r \in rows : r.ethereum_tx = internal_tx.ethereum_tx})
        position == CHOOSE i \in 1..Len(ordered) :
                        ordered[i].trace_address = internal_tx.trace_address
    IN  PreviousCallFrom(ordered, position - 2)

\* A plausible slip: the ancestors are never looked at.
MutParentNeverErrored(rows, internal_tx) == FALSE

\* InternalTx.parent_is_errored: the stored rows of the same transaction
\* whose trace_address starts this row's trace_address and whose error is set.
parent_is_errored(rows, internal_tx) ==
    \E r \in rows :
        /\ r.ethereum_tx = internal_tx.ethereum_tx
        /\ StartsWith(internal_tx.trace_address, r.trace_address)
        /\ ~IsNull(r.error)

\* InternalTx.can_be_decoded, internal_tx.ethereum_tx being `ethereum_tx`
can_be_decoded(rows, internal_tx, ethereum_tx) ==
    /\ is_delegate_call(internal_tx)
    /\ IsNull(internal_tx.error) \/ Val(internal_tx.error) = ""
    /\ ~IsNull(internal_tx.data) /\ Val(internal_tx.data) # ""
    /\ success(ethereum_tx)
    /\ ~parent_is_errored(rows, internal_tx)

\* The decoder's selector table: calldata -> function name.
Selectors ==
    [c \in {SetupCalldata, SetupCalldata2, ExecCalldata, ModuleCalldata} |->
        IF c \in {SetupCalldata, SetupCalldata2} THEN "setup"
        ELSE IF c = ExecCalldata THEN "execTransaction"
        ELSE "execTransactionFromModule"]

\* tx_decoder.decode_transaction: <<function_name, arguments>>, or <<>> for
\* CannotDecode.
decode_transaction(data) ==
    IF data \in DOMAIN Selectors THEN <<Selectors[data], data>> ELSE <<>>

\* InternalTxDecoded(internal_tx=..., function_name=..., arguments=..., processed=False)
InternalTxDecoded(internal_tx, function_name, arguments) ==
    [internal_tx |-> InternalTxKey(internal_tx), function_name |-> function_name,
     arguments |-> arguments, processed |-> FALSE]

\* A plausible slip: CannotDecode is not caught inside the loop and ends it.
RECURSIVE MutDecodeStopsAtCannotDecode(_, _, _)
MutDecodeStopsAtCannotDecode(rows, txs, batch) ==
    IF batch = <<>> THEN <<>>
    ELSE LET internal_tx == Head(batch)
             ethereum_tx == CHOOSE t \in txs : t.tx_hash = internal_tx.ethereum_tx
             stored == CHOOSE r \in rows : InternalTxKey(r) = InternalTxKey(internal_tx)
             call == decode_transaction(Val(stored.data))
         IN  IF ~can_be_decoded(rows, internal_tx, ethereum_tx)
             THEN MutDecodeStopsAtCannotDecode(rows, txs, Tail(batch))
             ELSE IF call = <<>> THEN <<>>
             ELSE <<InternalTxDecoded(stored, call[1], call[2])>>
                  \o MutDecodeStopsAtCannotDecode(rows, txs, Tail(batch))

\* The loop of process_elements over the batch: the InternalTxDecoded rows to insert.
RECURSIVE DecodeBatch(_, _, _)
DecodeBatch(rows, txs, batch) ==
    IF batch = <<>> THEN <<>>
    ELSE LET internal_tx == Head(batch)
             ethereum_tx == CHOOSE t \in txs : t.tx_hash = internal_tx.ethereum_tx
             stored == CHOOSE r \in rows : InternalTxKey(r) = InternalTxKey(internal_tx)
             call == decode_transaction(Val(stored.data))
         IN  (IF can_be_decoded(rows, internal_tx, ethereum_tx) /\ call # <<>>
              THEN <<InternalTxDecoded(stored, call[1], call[2])>>
              ELSE <<>>)
             \o DecodeBatch(rows, txs, Tail(batch))

\* A plausible slip: the decoded rows of the batch are stored anew, with
\* processed=False, over the rows that exist.
MutProcessElementsRedecodes(tx_hashes) ==
    LET txs == txs_create_or_update_from_tx_hashes(ethereum_txs, tx_hashes)
        traces == trace_transactions(tx_hashes)
        internal_txs_batch ==
            Concat([i \in 1..Len(tx_hashes) |->
                      [j \in 1..Len(traces[i]) |->
                          InternalTxOfFrame(traces[i][j], txs.rows[i])]])
        stored == bulk_create_ignore_conflicts(internal_txs, internal_txs_batch)
        internal_txs_decoded_batch == DecodeBatch(stored, txs.table, internal_txs_batch)
    IN  /\ ethereum_txs' = txs.table
        /\ internal_txs' = stored
        /\ decoded_txs' =
              { d \in decoded_txs :
                  \A i \in 1..Len(internal_txs_decoded_batch) :
                      DecodedKey(internal_txs_decoded_batch[i]) # DecodedKey(d) }
                  \cup Range(internal_txs_decoded_batch)

\* InternalTxIndexer.process_elements(tx_hashes)
process_elements(tx_hashes) ==
    LET txs == txs_create_or_update_from_tx_hashes(ethereum_txs, tx_hashes)
        traces == trace_transactions(tx_hashes)
        internal_txs_batch ==
            Concat([i \in 1..Len(tx_hashes) |->
                      [j \in 1..Len(traces[i]) |->
                          InternalTxOfFrame(traces[i][j], txs.rows[i])]])
        stored == bulk_create_ignore_conflicts(internal_txs, internal_txs_batch)
        internal_txs_decoded_batch == DecodeBatch(stored, txs.table, internal_txs_batch)
    IN  /\ ethereum_txs' = txs.table
        /\ internal_txs' = stored
        /\ decoded_txs' = bulk_create_ignore_conflicts(
                              decoded_txs, internal_txs_decoded_batch)

\* Batches of tx hashes: every non-empty list of distinct hashes.
Batches ==
    { b \in UNION { [1..n -> Range(TxHashes)] : n \in 1..Len(TxHashes) } :
        \A i, j \in 1..Len(b) : i # j => b[i] # b[j] }

ProcessElements ==
    /\ \E tx_hashes \in Batches : process_elements(tx_hashes)
    /\ UNCHANGED <<registryVars, findVars, eventVars, callVars, concurrentVars, reorgVars, processorVars, batchVars, blockVars, chain, safe_contracts>>

\* A plausible slip: processed is set on the instance and never saved.
MutSetProcessedNotSaved(decoded) == decoded_txs' = decoded_txs

\* InternalTxDecoded.set_processed
set_processed(decoded) ==
    decoded_txs' = (decoded_txs \ {decoded}) \cup {[decoded EXCEPT !.processed = TRUE]}

SetProcessed ==
    /\ \E decoded \in decoded_txs : ~decoded.processed /\ set_processed(decoded)
    /\ UNCHANGED <<registryVars, findVars, eventVars, callVars, concurrentVars, reorgVars, processorVars, batchVars, blockVars, chain,
                   ethereum_txs, internal_txs, safe_contracts>>

\* A plausible slip: the newest block comes first.
MutPendingNewestFirst(d, e) ==
    LET dtx == CHOOSE t \in ethereum_txs : t.tx_hash = d.internal_tx[1]
        etx == CHOOSE t \in ethereum_txs : t.tx_hash = e.internal_tx[1]
    IN  IF Val(dtx.block_id) # Val(etx.block_id)
        THEN Val(dtx.block_id) > Val(etx.block_id)
        ELSE StrLess(d.internal_tx[2], e.internal_tx[2])

\* The ORDER BY key of pending_for_safes: block_id, transaction_index,
\* trace_address, the last one a string.
PendingBefore(d, e) ==
    LET dtx == CHOOSE t \in ethereum_txs : t.tx_hash = d.internal_tx[1]
        etx == CHOOSE t \in ethereum_txs : t.tx_hash = e.internal_tx[1]
    IN  IF Val(dtx.block_id) # Val(etx.block_id)
        THEN Val(dtx.block_id) < Val(etx.block_id)
        ELSE IF Val(dtx.transaction_index) # Val(etx.transaction_index)
        THEN Val(dtx.transaction_index) < Val(etx.transaction_index)
        ELSE StrLess(d.internal_tx[2], e.internal_tx[2])

\* The rows of a queryset in ORDER BY order.
RECURSIVE OrderBy(_)
OrderBy(rows) ==
    IF rows = {} THEN <<>>
    ELSE LET first == CHOOSE d \in rows : \A e \in rows \ {d} : PendingBefore(d, e)
         IN  <<first>> \o OrderBy(rows \ {first})

\* A plausible slip: only the setup calls are pending.
MutPendingSetupOnly(decoded, rows, safes) ==
    { d \in decoded : ~d.processed /\ d.function_name = "setup" }

\* not_processed().filter(Q(internal_tx___from__in=SafeContract addresses)
\*                        | Q(function_name='setup'))
PendingRows(decoded, rows, safes) ==
    { d \in decoded :
        /\ ~d.processed
        /\ \/ \E it \in rows :
                 /\ InternalTxKey(it) = d.internal_tx
                 /\ ~IsNull(it._from)
                 /\ Val(it._from) \in safes
           \/ d.function_name = "setup" }

\* InternalTxDecodedQuerySet.pending_for_safes
pending_for_safes == OrderBy(PendingRows(decoded_txs, internal_txs, safe_contracts))

(***************************************************************************)
(* process_elements statement by statement. The rows written inside        *)
(* `with transaction.atomic()` are the write set of the database           *)
(* transaction: other tasks see them when the block is left normally, and  *)
(* never when an exception leaves it.                                      *)
(***************************************************************************)
NoBatchTask ==
    [pc |-> "idle", tx_hashes |-> <<>>, internal_txs_batch |-> <<>>,
     written_internal |-> {}, written_decoded |-> {}]

\* A plausible slip: no transaction.atomic(), every insert is committed at once.
MutAutocommit(table, written) == table \cup written

\* What other tasks see of `table` right after an insert of `written` made
\* inside transaction.atomic(): the committed rows only.
VisibleInsideAtomic(table, written) == table

\* Lines 126-133: the EthereumTx rows are stored, the InternalTx rows built.
PrefetchBatch ==
    /\ batch_task.pc = "idle"
    /\ \E tx_hashes \in Batches :
          LET txs == txs_create_or_update_from_tx_hashes(ethereum_txs, tx_hashes)
              traces == trace_transactions(tx_hashes)
          IN  /\ ethereum_txs' = txs.table
              /\ batch_task' =
                    [NoBatchTask EXCEPT
                        !.pc = "prefetched",
                        !.tx_hashes = tx_hashes,
                        !.internal_txs_batch =
                            Concat([i \in 1..Len(tx_hashes) |->
                                      [j \in 1..Len(traces[i]) |->
                                          InternalTxOfFrame(traces[i][j], txs.rows[i])]])]
    /\ UNCHANGED <<registryVars, findVars, eventVars, callVars, concurrentVars, reorgVars, processorVars, blockVars, chain, internal_txs,
                   decoded_txs, safe_contracts>>

\* Line 139: InternalTx.objects.bulk_create(internal_txs_batch, ignore_conflicts=True)
StoreTraces ==
    /\ batch_task.pc = "prefetched"
    /\ LET written == bulk_create_ignore_conflicts(
                          internal_txs, batch_task.internal_txs_batch) \ internal_txs
       IN  /\ internal_txs' = VisibleInsideAtomic(internal_txs, written)
           /\ batch_task' = [batch_task EXCEPT !.pc = "stored",
                                               !.written_internal = written]
    /\ UNCHANGED <<registryVars, findVars, eventVars, callVars, concurrentVars, reorgVars, processorVars, blockVars, chain, ethereum_txs,
                   decoded_txs, safe_contracts>>

\* Lines 142-157: the decoding loop and the insert of the decoded rows; the
\* transaction reads the committed rows and its own.
DecodeTraces ==
    /\ batch_task.pc = "stored"
    /\ LET rows == internal_txs \cup batch_task.written_internal
           internal_txs_decoded_batch ==
               DecodeBatch(rows, ethereum_txs, batch_task.internal_txs_batch)
           written == bulk_create_ignore_conflicts(
                          decoded_txs, internal_txs_decoded_batch) \ decoded_txs
       IN  /\ decoded_txs' = VisibleInsideAtomic(decoded_txs, written)
           /\ batch_task' = [batch_task EXCEPT !.pc = "decoded",
                                               !.written_decoded = written]
    /\ UNCHANGED <<registryVars, findVars, eventVars, callVars, concurrentVars, reorgVars, processorVars, blockVars, chain, ethereum_txs,
                   internal_txs, safe_contracts>>

\* Lines 158-159: the atomic block is left normally, the write set commits.
CommitBatch ==
    /\ batch_task.pc = "decoded"
    /\ internal_txs' = internal_txs \cup batch_task.written_internal
    /\ decoded_txs' = decoded_txs \cup batch_task.written_decoded
    /\ batch_task' = NoBatchTask
    /\ UNCHANGED <<registryVars, findVars, eventVars, callVars, concurrentVars, reorgVars, processorVars, blockVars, chain, ethereum_txs,
                   safe_contracts>>

\* An exception leaves the atomic block (a database error, an error of the
\* decoder other than CannotDecode): the write set is rolled back.
FailBatch ==
    /\ batch_task.pc \in {"stored", "decoded"}
    /\ batch_task' = [batch_task EXCEPT !.pc = "failed"]
    /\ UNCHANGED <<registryVars, findVars, eventVars, callVars, concurrentVars, reorgVars, processorVars, indexVars, blockVars>>

\* The scheduler runs the indexer again.
RetryBatch ==
    /\ batch_task.pc = "failed"
    /\ batch_task' = NoBatchTask
    /\ UNCHANGED <<registryVars, findVars, eventVars, callVars, concurrentVars, reorgVars, processorVars, indexVars, blockVars>>

(***************************************************************************)
(* The block store. A block hash is <<number, branch>>: two blocks of the   *)
(* same number on different branches differ in their hash, and a hash       *)
(* belongs to one number.                                                   *)
(***************************************************************************)
MaxNumber == 2

Numbers == 1..MaxNumber

Branches == {"a", "b"}

Tasks == {"t1", "t2"}

\* The block dict web3 returns for `number` on `branch`.
Block(number, branch) ==
    [number |-> number, hash |-> <<number, branch>>,
     parentHash |-> <<number - 1, branch>>]

BlockDicts == { Block(n, br) : n \in Numbers, br \in Branches }

\* The EthereumBlock row create_from_block inserts.
EthereumBlock(block, confirmed) ==
    [number |-> block.number, block_hash |-> block.hash,
     parent_hash |-> block.parentHash, confirmed |-> confirmed]

NoBlockTask ==
    [pc |-> "idle", block |-> Block(1, "a"), confirmed |-> FALSE, result |-> NULL]

\* self.get(number=...): the rows with that number (none: DoesNotExist)
GetByNumber(rows, number) == { r \in rows : r.number = number }

\* The INSERT violates the primary key (number) or a unique column
\* (block_hash, parent_hash).
IntegrityError(rows, row) ==
    \E r \in rows :
        \/ r.number = row.number
        \/ r.block_hash = row.block_hash
        \/ r.parent_hash = row.parent_hash

\* A plausible slip: IntegrityError is not caught.
MutIntegrityErrorRaised == "raised"

\* except IntegrityError: the call goes on with self.get(number=...)
OnIntegrityError == "conflict"

\* get_or_create_from_block, first statement: self.get(number=block['number'])
GetOrCreateFromBlock(t) ==
    /\ block_tasks[t].pc = "idle"
    /\ \E block \in BlockDicts, confirmed \in BOOLEAN :
          LET found == GetByNumber(blocks, block.number)
          IN  block_tasks' =
                  [block_tasks EXCEPT ![t] =
                      IF found # {}
                      THEN [pc |-> "returned", block |-> block, confirmed |-> confirmed,
                            result |-> Some(CHOOSE r \in found : TRUE)]
                      ELSE [pc |-> "create", block |-> block, confirmed |-> confirmed,
                            result |-> NULL]]
    /\ UNCHANGED <<registryVars, findVars, eventVars, callVars, concurrentVars, reorgVars, processorVars, indexVars, batchVars, blocks>>

\* create_from_block: super().create(...), IntegrityError caught
CreateFromBlock(t) ==
    /\ block_tasks[t].pc = "create"
    /\ LET row == EthereumBlock(block_tasks[t].block, block_tasks[t].confirmed)
       IN  IF IntegrityError(blocks, row)
           THEN /\ block_tasks' = [block_tasks EXCEPT ![t].pc = OnIntegrityError]
                /\ UNCHANGED blocks
           ELSE /\ blocks' = blocks \cup {row}
                /\ block_tasks' = [block_tasks EXCEPT ![t].pc = "returned",
                                                      ![t].result = Some(row)]
    /\ UNCHANGED <<registryVars, findVars, eventVars, callVars, concurrentVars, reorgVars, processorVars, indexVars, batchVars>>

\* create_from_block, the except branch: return self.get(number=block['number'])
GetAfterIntegrityError(t) ==
    /\ block_tasks[t].pc = "conflict"
    /\ LET found == GetByNumber(blocks, block_tasks[t].block.number)
       IN  block_tasks' =
               [block_tasks EXCEPT ![t] =
                   IF found # {}
                   THEN [@ EXCEPT !.pc = "returned",
                                  !.result = Some(CHOOSE r \in found : TRUE)]
                   ELSE [@ EXCEPT !.pc = "raised"]]
    /\ UNCHANGED <<registryVars, findVars, eventVars, callVars, concurrentVars, reorgVars, processorVars, indexVars, batchVars, blocks>>

\* The caller has the row (or the exception); the task is free for the next call.
ReturnBlock(t) ==
    /\ block_tasks[t].pc \in {"returned", "raised"}
    /\ block_tasks' = [block_tasks EXCEPT ![t] = NoBlockTask]
    /\ UNCHANGED <<registryVars, findVars, eventVars, callVars, concurrentVars, reorgVars, processorVars, indexVars, batchVars, blocks>>

\* A plausible slip: the flag is flipped instead of set.
MutSetConfirmedFlips(block) == [block EXCEPT !.confirmed = ~block.confirmed]

\* EthereumBlock.set_confirmed: save(update_fields=['confirmed'])
set_confirmed(block) == [block EXCEPT !.confirmed = TRUE]

SetConfirmed ==
    /\ \E block \in blocks :
          blocks' = (blocks \ {block}) \cup {set_confirmed(block)}
    /\ UNCHANGED <<registryVars, findVars, eventVars, callVars, concurrentVars, reorgVars, processorVars, indexVars, batchVars, block_tasks>>

(***************************************************************************)
(* SafeStatus: the snapshots of a Safe, one per InternalTx that changed it. *)
(***************************************************************************)
\* order_by('address', '-..block_id', '-..transaction_index',
\* '-internal_tx__trace_address'): r comes before q; trace_address is
\* compared as a string.
SortedByInternalTxBefore(txs, r, q) ==
    LET rtx == CHOOSE t \in txs : t.tx_hash = r.internal_tx[1]
        qtx == CHOOSE t \in txs : t.tx_hash = q.internal_tx[1]
    IN  IF Val(rtx.block_id) # Val(qtx.block_id)
        THEN Val(rtx.block_id) > Val(qtx.block_id)
        ELSE IF Val(rtx.transaction_index) # Val(qtx.transaction_index)
        THEN Val(rtx.transaction_index) > Val(qtx.transaction_index)
        ELSE StrLess(q.internal_tx[2], r.internal_tx[2])

\* A plausible slip: no snapshot is ever found.
MutLastForAddressNone(statuses, txs, address) == NULL

\* SafeStatusQuerySet.last_for_address: the first row of the address in
\* sorted_by_internal_tx order, or NULL.
last_for_address(statuses, txs, address) ==
    LET rows == { r \in statuses : r.address = address }
    IN  IF rows = {} THEN NULL
        ELSE Some(CHOOSE r \in rows :
                      \A q \in rows \ {r} : SortedByInternalTxBefore(txs, r, q))

\* A plausible slip: the loaded row is moved to the new InternalTx.
MutStoreNewMovesRow(rows, safe_status, internal_tx) ==
    { r \in rows : r.internal_tx # safe_status.internal_tx }
        \cup {[safe_status EXCEPT !.internal_tx = InternalTxKey(internal_tx)]}

\* SafeStatus.store_new: self.internal_tx = internal_tx; self.save(). The
\* primary key is internal_tx: save() updates the row with that key, and
\* inserts when there is none.
store_new(rows, safe_status, internal_tx) ==
    LET saved == [safe_status EXCEPT !.internal_tx = InternalTxKey(internal_tx)]
    IN  { r \in rows : r.internal_tx # saved.internal_tx } \cup {saved}

\* The instance the processor stores for a change of `address`: the latest
\* snapshot with the change applied, or the first snapshot.
NextStatus(statuses, txs, address) ==
    LET last == last_for_address(statuses, txs, address)
    IN  IF IsNull(last)
        THEN [internal_tx |-> <<>>, address |-> address, nonce |-> 0]
        ELSE [Val(last) EXCEPT !.nonce = Val(last).nonce + 1]

\* The processor stores the status an InternalTx without status led to.
StoreNew ==
    /\ \E internal_tx \in internal_txs :
          /\ \A r \in safe_statuses : r.internal_tx # InternalTxKey(internal_tx)
          /\ ~IsNull(internal_tx._from)
          /\ safe_statuses' =
                store_new(safe_statuses,
                          NextStatus(safe_statuses, ethereum_txs, Val(internal_tx._from)),
                          internal_tx)
    /\ UNCHANGED <<registryVars, findVars, eventVars, callVars, concurrentVars, indexVars, batchVars, blockVars, reorgVars,
                   multisig_txs, multisig_confirmations, module_txs, processor_task>>

(***************************************************************************)
(* Reorgs. The node's chain has a block at every number up to its head; a   *)
(* reorg replaces the blocks from some number on by those of the other     *)
(* branch. The reorg handler and the processor are not part of these       *)
(* sources; they follow the service's specification.                       *)
(***************************************************************************)
MaxHead == 3

REORG_DEPTH == 2

Heights == 1..MaxHead

NoLive == [head |-> 0, branch |-> [n \in Heights |-> "a"]]

NoReorgTask == [pc |-> "idle", queue |-> <<>>]

Min(a, b) == IF a <= b THEN a ELSE b

\* The block the node has at `number`.
LiveBlock(number) == Block(number, live.branch[number])

\* The node mines the next block.
Mine ==
    /\ live.head < MaxHead
    /\ live' = [live EXCEPT !.head = live.head + 1]
    /\ UNCHANGED <<registryVars, findVars, eventVars, callVars, concurrentVars, indexVars, batchVars, blockVars,
                   reorg_task, processorVars>>

\* A reorg no deeper than REORG_DEPTH: the blocks from `number` on are
\* replaced by those of the other branch.
Reorg ==
    /\ \E number \in 1..live.head :
          /\ live.head - number < REORG_DEPTH
          /\ live' = [live EXCEPT !.branch =
                         [n \in Heights |->
                             IF n < number \/ n > live.head THEN live.branch[n]
                             ELSE IF live.branch[n] = "a" THEN "b" ELSE "a"]]
    /\ UNCHANGED <<registryVars, findVars, eventVars, callVars, concurrentVars, indexVars, batchVars, blockVars,
                   reorg_task, processorVars>>

\* The tables as one value.
Database ==
    [blocks |-> blocks, ethereum_txs |-> ethereum_txs, internal_txs |-> internal_txs,
     decoded_txs |-> decoded_txs, safe_statuses |-> safe_statuses,
     multisig_txs |-> multisig_txs, multisig_confirmations |-> multisig_confirmations,
     module_txs |-> module_txs, safe_contracts |-> safe_contracts]

EmptyDatabase ==
    [blocks |-> {}, ethereum_txs |-> {}, internal_txs |-> {}, decoded_txs |-> {},
     safe_statuses |-> {}, multisig_txs |-> {}, multisig_confirmations |-> {},
     module_txs |-> {}, safe_contracts |-> {}]

\* The transaction a block holds: on branch a the Safe executes a multisig
\* transaction, on branch b a module executes a transaction of the Safe.
BlockTxHash(block) == <<"tx", block.number, block.hash[2]>>

BlockTrace(block) ==
    Trace(BlockTxHash(block), <<0>>,
          [type |-> "call", callType |-> "delegatecall", from |-> "0x5afe",
           to |-> "0x3a57", error |-> NULL,
           input |-> IF block.hash[2] = "a" THEN ExecCalldata ELSE ModuleCalldata])

\* The decoded arguments of a setup call: the owners and the threshold.
SetupArguments(arguments) ==
    IF arguments = SetupCalldata THEN [owners |-> <<"0x0e1">>, threshold |-> 1]
    ELSE [owners |-> <<"0x0e1", "0x0e2">>, threshold |-> 2]

\* The receipt logs of the transaction carry the ExecutionFailure event of
\* the master copy: so it is for the transactions of block 2.
ExecutionFailure(ethereum_tx) == ethereum_tx.block_id = Some(2)

\* The processor's effect of one decoded call on the derived tables.
process_decoded(db, internal_tx, decoded) ==
    LET safe == Val(internal_tx._from)
        tx_hash == internal_tx.ethereum_tx
        ethereum_tx == CHOOSE t \in db.ethereum_txs : t.tx_hash = tx_hash
        safe_tx_hash == <<"safeTx", tx_hash, internal_tx.trace_address>>
        safe_status == NextStatus(db.safe_statuses, db.ethereum_txs, safe)
        done == [db EXCEPT !.decoded_txs =
                    (@ \ {decoded}) \cup {[decoded EXCEPT !.processed = TRUE]}]
    IN  IF decoded.function_name = "setup"
        THEN [done EXCEPT
                 !.safe_contracts = @ \cup {safe},
                 !.safe_statuses =
                     IF IsNull(last_for_address(db.safe_statuses, db.ethereum_txs, safe))
                     THEN @ \cup {[internal_tx |-> InternalTxKey(internal_tx),
                                   address |-> safe, nonce |-> 0,
                                   owners |-> SetupArguments(decoded.arguments).owners,
                                   threshold |-> SetupArguments(decoded.arguments).threshold,
                                   master_copy |-> Val(internal_tx.to),
                                   enabled_modules |-> {}]}
                     ELSE @]
        ELSE IF decoded.function_name = "execTransaction"
        THEN [done EXCEPT
                 !.multisig_txs =
                     { mt \in @ : mt.safe_tx_hash # safe_tx_hash }
                         \cup {[safe_tx_hash |-> safe_tx_hash, safe |-> safe,
                                ethereum_tx |-> Some(tx_hash),
                                nonce |-> safe_status.nonce,
                                failed |-> ExecutionFailure(ethereum_tx)]},
                 !.multisig_confirmations =
                     { mc \in @ : mc.multisig_transaction_hash # safe_tx_hash }
                         \cup {[multisig_transaction_hash |-> safe_tx_hash,
                                owner |-> "0x0e1", ethereum_tx |-> Some(tx_hash),
                                multisig_transaction |-> Some(safe_tx_hash)]},
                 !.safe_statuses = store_new(@, safe_status, internal_tx)]
        ELSE IF decoded.function_name = "execTransactionFromModule"
        THEN [done EXCEPT
                 !.module_txs = @ \cup {[internal_tx |-> InternalTxKey(internal_tx),
                                         safe |-> safe, module |-> "0x30d"]}]
        ELSE done

\* The indexer and the processor over one block: the block row
\* (get_or_create_from_block), its transaction, the trace, the decoded call
\* and what the processor derives from it.
index_block(db, block) ==
    LET found == GetByNumber(db.blocks, block.number)
        ethereum_block == IF found # {} THEN CHOOSE r \in found : TRUE
                          ELSE EthereumBlock(block, FALSE)
        ethereum_tx == [tx_hash |-> BlockTxHash(block),
                        block_id |-> Some(ethereum_block.number),
                        transaction_index |-> Some(0), status |-> Some(1)]
        internal_tx == InternalTxOfFrame(BlockTrace(block), ethereum_tx)
        txs == db.ethereum_txs \cup {ethereum_tx}
        rows == bulk_create_ignore_conflicts(db.internal_txs, <<internal_tx>>)
        batch == DecodeBatch(rows, txs, <<internal_tx>>)
        indexed == [db EXCEPT !.blocks = @ \cup {ethereum_block},
                              !.ethereum_txs = txs,
                              !.internal_txs = rows,
                              !.decoded_txs = bulk_create_ignore_conflicts(@, batch)]
    IN  IF batch = <<>> THEN indexed
        ELSE process_decoded(indexed, internal_tx, batch[1])

\* The indexer scans the block after the cursor of 0xA and advances the
\* cursors of the addresses it was run for.
IndexBlock ==
    /\ reorg_task.pc = "idle"
    /\ ~IsNull(registry["0xA"]["tx_block_number"])
    /\ LET number == Val(registry["0xA"]["tx_block_number"]) + 1
       IN  /\ number <= live.head
           /\ LET db == index_block(Database, LiveBlock(number))
              IN  /\ blocks' = db.blocks
                  /\ ethereum_txs' = db.ethereum_txs
                  /\ internal_txs' = db.internal_txs
                  /\ decoded_txs' = db.decoded_txs
                  /\ safe_statuses' = db.safe_statuses
                  /\ multisig_txs' = db.multisig_txs
                  /\ multisig_confirmations' = db.multisig_confirmations
                  /\ module_txs' = db.module_txs
           /\ \E addresses \in {{"0xA"}, Addresses} :
                 update_addresses(addresses, number, number, "tx_block_number")
    /\ UNCHANGED <<findVars, eventVars, callVars, concurrentVars, batchVars, block_tasks, reorgVars, chain, safe_contracts,
                   processor_task>>

\* A plausible slip: the blocks are listed from the newest to the oldest.
RECURSIVE MutNotConfirmedDescending(_, _)
MutNotConfirmedDescending(rows, to_block_number) ==
    LET queryset == { r \in rows :
                        /\ ~r.confirmed
                        /\ IsNull(to_block_number) \/ r.number <= Val(to_block_number) }
    IN  IF queryset = {} THEN <<>>
        ELSE LET first == CHOOSE r \in queryset : \A q \in queryset : q.number <= r.number
             IN  <<first>> \o MutNotConfirmedDescending(queryset \ {first}, to_block_number)

\* EthereumBlockQuerySet.not_confirmed: the unconfirmed rows, up to
\* to_block_number when given, ordered by number.
RECURSIVE not_confirmed(_, _)
not_confirmed(rows, to_block_number) ==
    LET queryset == { r \in rows :
                        /\ ~r.confirmed
                        /\ IsNull(to_block_number) \/ r.number <= Val(to_block_number) }
    IN  IF queryset = {} THEN <<>>
        ELSE LET first == CHOOSE r \in queryset : \A q \in queryset : r.number <= q.number
             IN  <<first>> \o not_confirmed(queryset \ {first}, to_block_number)

\* EthereumTx.block: on_delete=CASCADE (a transaction without block stays)
CascadeBlock(txs, blocks_left) ==
    { t \in txs : IsNull(t.block_id) \/ \E b \in blocks_left : b.number = Val(t.block_id) }

\* InternalTx.ethereum_tx: on_delete=CASCADE
CascadeEthereumTx(rows, txs_left) ==
    { r \in rows : \E t \in txs_left : t.tx_hash = r.ethereum_tx }

\* InternalTxDecoded, SafeStatus, ModuleTransaction .internal_tx: on_delete=CASCADE
CascadeInternalTx(rows, internal_txs_left) ==
    { r \in rows : \E it \in internal_txs_left : InternalTxKey(it) = r.internal_tx }

\* MultisigConfirmation.ethereum_tx: on_delete=CASCADE, null for a
\* confirmation that came as a signature
CascadeConfirmation(rows, txs_left) ==
    { r \in rows : IsNull(r.ethereum_tx) \/ \E t \in txs_left : t.tx_hash = Val(r.ethereum_tx) }

\* A plausible slip: the multisig transaction goes with its executing transaction.
MutMultisigTxCascade(rows, txs_left) ==
    { r \in rows : IsNull(r.ethereum_tx) \/ \E t \in txs_left : t.tx_hash = Val(r.ethereum_tx) }

\* MultisigTransaction.ethereum_tx: on_delete=SET_NULL
SetNullMultisigTx(rows, txs_left) ==
    { IF IsNull(r.ethereum_tx) \/ \E t \in txs_left : t.tx_hash = Val(r.ethereum_tx)
      THEN r ELSE [r EXCEPT !.ethereum_tx = NULL] : r \in rows }

\* Deleting the blocks from `number` on, with what the foreign keys take along.
delete_blocks(db, number) ==
    LET blocks_left == { b \in db.blocks : b.number < number }
        txs_left == CascadeBlock(db.ethereum_txs, blocks_left)
        internal_txs_left == CascadeEthereumTx(db.internal_txs, txs_left)
    IN  [blocks |-> blocks_left,
         ethereum_txs |-> txs_left,
         internal_txs |-> internal_txs_left,
         decoded_txs |-> CascadeInternalTx(db.decoded_txs, internal_txs_left),
         safe_statuses |-> CascadeInternalTx(db.safe_statuses, internal_txs_left),
         module_txs |-> CascadeInternalTx(db.module_txs, internal_txs_left),
         multisig_confirmations |-> CascadeConfirmation(db.multisig_confirmations, txs_left),
         multisig_txs |-> SetNullMultisigTx(db.multisig_txs, txs_left),
         safe_contracts |-> db.safe_contracts]

\* Every monitored cursor is rewound to min(cursor, number - 1).
RewindCursors(reg, number) ==
    [a \in Addresses |->
        [f \in Fields |->
            IF IsNull(reg[a][f]) THEN NULL ELSE Some(Min(Val(reg[a][f]), number - 1))]]

\* The reorg handler's tick starts: the unconfirmed blocks, oldest first.
ReorgTickStart ==
    /\ reorg_task.pc = "idle"
    /\ LET queryset == not_confirmed(blocks, NULL)
       IN  /\ queryset # <<>>
           /\ reorg_task' = [pc |-> "scan",
                             queue |-> [i \in 1..Len(queryset) |-> queryset[i].number]]
    /\ UNCHANGED <<registryVars, findVars, eventVars, callVars, concurrentVars, indexVars, batchVars, blockVars, live,
                   processorVars>>

\* The tick examines the next block: same hash as the node's block, and it
\* is confirmed once REORG_DEPTH blocks deep; another hash, and the
\* rollback is done and the tick ends.
ReorgTickStep ==
    /\ reorg_task.pc = "scan"
    /\ LET number == Head(reorg_task.queue)
           stored == CHOOSE b \in blocks : b.number = number
           rest == Tail(reorg_task.queue)
       IN  IF stored.block_hash = LiveBlock(number).hash
           THEN /\ blocks' = IF live.head - number >= REORG_DEPTH
                             THEN (blocks \ {stored}) \cup {set_confirmed(stored)}
                             ELSE blocks
                /\ reorg_task' = IF rest = <<>> THEN NoReorgTask
                                 ELSE [pc |-> "scan", queue |-> rest]
                /\ UNCHANGED <<registryVars, eventVars, callVars, concurrentVars, ethereum_txs, internal_txs, decoded_txs,
                               processorVars>>
           ELSE LET db == delete_blocks(Database, number)
                IN  /\ blocks' = db.blocks
                    /\ ethereum_txs' = db.ethereum_txs
                    /\ internal_txs' = db.internal_txs
                    /\ decoded_txs' = db.decoded_txs
                    /\ safe_statuses' = db.safe_statuses
                    /\ multisig_txs' = db.multisig_txs
                    /\ multisig_confirmations' = db.multisig_confirmations
                    /\ module_txs' = db.module_txs
                    /\ registry' = RewindCursors(registry, number)
                    /\ reorg_task' = NoReorgTask
                    /\ UNCHANGED reg_call
    /\ UNCHANGED <<findVars, eventVars, callVars, concurrentVars, batchVars, block_tasks, live, chain, safe_contracts,
                   processor_task>>

(***************************************************************************)
(* The processor over a chain of Safe calls. The indexer scans the chain   *)
(* in block order, in batches of any size; the processor runs over the     *)
(* pending queue it read at the start of its run, one database transaction *)
(* per decoded call. An exception ends the transaction and the run. The    *)
(* processor is not part of these sources; it follows the service's        *)
(* specification.                                                          *)
(***************************************************************************)
MaxCalls == 3

\* The calls of the Safe 0x5afe through its master copy.
SafeCallBodies ==
    { [type |-> "call", callType |-> "delegatecall", from |-> "0x5afe", to |-> "0x3a57",
       input |-> c, error |-> NULL]
      : c \in {SetupCalldata, SetupCalldata2, ExecCalldata, ModuleCalldata} }

\* Where the calls can sit: two frames of 0xbb (block 1), two of 0xaa (block 2).
SafeCallSlots ==
    { <<"0xbb", <<>>>>, <<"0xbb", <<1>>>>, <<"0xaa", <<2>>>>, <<"0xaa", <<10>>>> }

\* Frame f was executed before frame g.
ExecutedBefore(f, g) ==
    IF f.transactionHash # g.transactionHash
    THEN TxBlock(f.transactionHash) < TxBlock(g.transactionHash)
    ELSE IntSeqLess(f.traceAddress, g.traceAddress)

\* Every chain of at most MaxCalls calls, all transactions successful. The
\* first call of the Safe is a setup: the master copy reverts any other
\* call of a Safe without owners.
SafeCallChains ==
    LET frames == { Trace(slot[1], slot[2], b) : slot \in SafeCallSlots,
                                                 b \in SafeCallBodies }
        setups == {SetupCalldata, SetupCalldata2}
    IN  { [status |-> [h \in Range(TxHashes) |-> 1], traces |-> l] :
            l \in { l \in UNION { [1..n -> frames] : n \in 0..MaxCalls } :
                      /\ \A i \in 1..(Len(l) - 1) : TraceBefore(l[i], l[i + 1])
                      /\ \A i \in 1..Len(l) :
                            l[i].input \notin setups =>
                                \E j \in 1..Len(l) :
                                    /\ l[j].input \in setups
                                    /\ ExecutedBefore(l[j], l[i]) } }

\* The transactions in the order of their blocks.
ChainOrder ==
    CHOOSE o \in [1..Len(TxHashes) -> Range(TxHashes)] :
        /\ Range(o) = Range(TxHashes)
        /\ \A i, j \in 1..Len(o) :
              i < j => \/ TxBlock(o[i]) < TxBlock(o[j])
                       \/ TxBlock(o[i]) = TxBlock(o[j]) /\ TxIndex(o[i]) < TxIndex(o[j])

\* The indexer scans the next transactions of the chain, as one batch.
IndexNextBatch ==
    /\ \E last \in (Cardinality(ethereum_txs) + 1)..Len(ChainOrder) :
          process_elements(SubSeq(ChainOrder, Cardinality(ethereum_txs) + 1, last))
    /\ UNCHANGED <<registryVars, findVars, eventVars, callVars, concurrentVars, reorgVars, processorVars, batchVars, blockVars,
                   chain, safe_contracts>>

NoProcessorTask == [pc |-> "idle", queue |-> <<>>, written |-> NULL]

\* The InternalTx of a decoded row.
InternalTxOf(rows, decoded) ==
    CHOOSE it \in rows : InternalTxKey(it) = decoded.internal_tx

\* A run of the processor starts: it reads the pending queue.
ProcessorStart ==
    /\ processor_task.pc = "idle"
    /\ pending_for_safes # <<>>
    /\ processor_task' = [pc |-> "run", queue |-> pending_for_safes, written |-> NULL]
    /\ UNCHANGED <<registryVars, findVars, eventVars, callVars, concurrentVars, indexVars, batchVars, blockVars, reorgVars,
                   safe_statuses, multisig_txs, multisig_confirmations, module_txs>>

\* The next decoded call of the queue is processed inside a database
\* transaction: what it writes is not visible yet.
ProcessorApply ==
    /\ processor_task.pc = "run"
    /\ LET decoded == Head(processor_task.queue)
       IN  processor_task' =
               [processor_task EXCEPT
                   !.pc = "applied",
                   !.written = Some(process_decoded(
                                        Database, InternalTxOf(internal_txs, decoded),
                                        decoded))]
    /\ UNCHANGED <<registryVars, findVars, eventVars, callVars, concurrentVars, indexVars, batchVars, blockVars, reorgVars,
                   safe_statuses, multisig_txs, multisig_confirmations, module_txs>>

\* The transaction commits: the derived rows and processed=true become
\* visible together.
ProcessorCommit ==
    /\ processor_task.pc = "applied"
    /\ LET db == Val(processor_task.written)
           rest == Tail(processor_task.queue)
       IN  /\ safe_statuses' = db.safe_statuses
           /\ multisig_txs' = db.multisig_txs
           /\ multisig_confirmations' = db.multisig_confirmations
           /\ module_txs' = db.module_txs
           /\ safe_contracts' = db.safe_contracts
           /\ set_processed(Head(processor_task.queue))
           /\ processor_task' = IF rest = <<>> THEN NoProcessorTask
                                ELSE [pc |-> "run", queue |-> rest, written |-> NULL]
    /\ UNCHANGED <<registryVars, findVars, eventVars, callVars, concurrentVars, batchVars, blockVars, reorgVars,
                   chain, ethereum_txs, internal_txs>>

\* An exception inside the transaction: it is rolled back and the run ends.
ProcessorFail ==
    /\ processor_task.pc = "applied"
    /\ processor_task' = NoProcessorTask
    /\ UNCHANGED <<registryVars, findVars, eventVars, callVars, concurrentVars, indexVars, batchVars, blockVars, reorgVars,
                   safe_statuses, multisig_txs, multisig_confirmations, module_txs>>

(***************************************************************************)
(* Methods of the models and their managers, applied to drawn arguments.   *)
(* method_call holds the arguments before the call and the outcome after.  *)
(***************************************************************************)
NoMethodCall == [op |-> "none"]

\* trace['type'] as nodes report it, in several letter cases, and types that
\* are not of a call, a creation or a self-destruct
TraceTypes ==
    { CallStr, CALLStr, <<"C", "a", "l", "l">>, CREATEStr, lower(CREATEStr),
      SUICIDEStr, lower(SUICIDEStr), <<"r", "e", "w", "a", "r", "d">>, <<>> }

\* trace['action'].get('callType'): missing or '' (the empty sequence), the
\* known call types in several letter cases, and unknown ones
TraceCallTypes ==
    { <<>>, CallStr, CALLStr, DelegatecallStr, upper(DelegatecallStr),
      <<"D", "e", "l", "e", "g", "a", "t", "e", "C", "a", "l", "l">>,
      DelegatecodeStr, upper(DelegatecodeStr),
      <<"s", "t", "a", "t", "i", "c", "c", "a", "l", "l">> }

\* trace['action']: calls carry to, value and input; creations carry init;
\* self-destructs carry address and balance.
TraceActions ==
    [callType : TraceCallTypes,
     from : {Some("0x5afe")},
     to : {NULL, Some("0x3a57")},
     address : {NULL, Some("0x5afe")},
     value : {NULL, Some(0), Some(5)},
     balance : {NULL, Some(0), Some(7)},
     input : {NULL, Some(""), Some(ExecCalldata)},
     init : {NULL, Some("0x6080")}]

TraceDicts ==
    [type : TraceTypes, action : TraceActions,
     traceAddress : {<<>>, <<1, 0>>, <<10>>}, error : {NULL}]

\* InternalTx.objects.build_from_trace(trace, ethereum_tx)
BuildFromTrace ==
    /\ method_call.op = "trace"
    /\ method_call' = [op |-> "build_from_trace", trace |-> method_call.trace,
                       returned |-> build_from_trace(method_call.trace,
                                                     [tx_hash |-> "0xaa"])]
    /\ UNCHANGED <<registryVars, findVars, indexVars, batchVars, blockVars, reorgVars,
                   processorVars, eventVars, concurrentVars>>

(***************************************************************************)
(* Table EthereumEvent: the decoded logs of the token transfers.           *)
(***************************************************************************)
\* gnosis.eth.constants.ERC20_721_TRANSFER_TOPIC, shortened
ERC20_721_TRANSFER_TOPIC == "0xddf252ad"

\* The topic of an Approval log, shortened
ApprovalTopic == "0x8c5be1e5"

\* The value a decoded log carries under a key of its args.
ArgumentValue(key) ==
    IF key = "from" THEN "0xe0a"
    ELSE IF key = "to" THEN "0x5afe"
    ELSE 5

\* decoded_event['args']: from, and any of to, value, tokenId
EventArguments ==
    { [key \in keys \cup {"from"} |-> ArgumentValue(key)] :
        keys \in SUBSET {"to", "value", "tokenId"} }

LogIndexes == {0, 1}

\* The decoded logs of transaction 0xaa, emitted by the token 0x70c
DecodedEvents ==
    [transactionHash : {"0xaa"}, logIndex : LogIndexes, address : {"0x70c"},
     topics : {<<ERC20_721_TRANSFER_TOPIC>>, <<ApprovalTopic>>},
     args : EventArguments]

\* EthereumEventManager.from_decoded_event
from_decoded_event(decoded_event) ==
    [ethereum_tx |-> decoded_event.transactionHash,
     log_index |-> decoded_event.logIndex,
     address |-> decoded_event.address,
     topic |-> decoded_event.topics[1],
     topics |-> decoded_event.topics,
     arguments |-> decoded_event.args]

\* unique_together (ethereum_tx, log_index)
EventKey(event) == <<event.ethereum_tx, event.log_index>>

\* 'key' in arguments, arguments__has_key='key'
HasKey(arguments, key) == key \in DOMAIN arguments

\* EthereumEvent.is_erc20
is_erc20(event) ==
    /\ event.topic = ERC20_721_TRANSFER_TOPIC
    /\ HasKey(event.arguments, "value")
    /\ HasKey(event.arguments, "to")

\* EthereumEvent.is_erc721
is_erc721(event) ==
    /\ event.topic = ERC20_721_TRANSFER_TOPIC
    /\ HasKey(event.arguments, "tokenId")
    /\ HasKey(event.arguments, "to")

\* EthereumEventQuerySet.erc20_and_721_events; an argument not given is NULL
erc20_and_721_events(events, token_address, address) ==
    { event \in events :
        /\ event.topic = ERC20_721_TRANSFER_TOPIC
        /\ token_address # NULL => event.address = Val(token_address)
        /\ address # NULL =>
              \/ HasKey(event.arguments, "to") /\ event.arguments["to"] = Val(address)
              \/ HasKey(event.arguments, "from") /\ event.arguments["from"] = Val(address) }

\* EthereumEventQuerySet.erc20_events
erc20_events(events, token_address, address) ==
    { event \in erc20_and_721_events(events, token_address, address) :
        HasKey(event.arguments, "value") }

\* EthereumEventQuerySet.erc721_events
erc721_events(events, token_address, address) ==
    { event \in erc20_and_721_events(events, token_address, address) :
        HasKey(event.arguments, "tokenId") }

\* QuerySet.get_or_create(ethereum_tx_id=..., log_index=..., defaults=...)
get_or_create(events, event) ==
    LET stored == { e \in events : EventKey(e) = EventKey(event) }
    IN  IF stored # {}
        THEN [events |-> events, returned |-> CHOOSE e \in stored : TRUE,
              created |-> FALSE]
        ELSE [events |-> events \cup {event}, returned |-> event, created |-> TRUE]

\* EthereumEventManager.get_or_create_erc20_or_721_event
get_or_create_erc20_or_721_event(events, decoded_event) ==
    IF \/ ~HasKey(decoded_event.args, "value")
       \/ ~HasKey(decoded_event.args, "tokenId")
    THEN [raised |-> TRUE, events |-> events]
    ELSE LET got == get_or_create(events, from_decoded_event(decoded_event))
         IN  [raised |-> FALSE, events |-> got.events, returned |-> got.returned,
              created |-> got.created]

\* The events indexer stores a decoded log: from_decoded_event, then an
\* insert that the unique key (ethereum_tx, log_index) lets through once.
StoreDecodedEvent ==
    \E decoded_event \in DecodedEvents :
        LET event == from_decoded_event(decoded_event)
        IN  /\ \A e \in ethereum_events : EventKey(e) # EventKey(event)
            /\ ethereum_events' = ethereum_events \cup {event}
            /\ method_call' = NoMethodCall
            /\ UNCHANGED <<registryVars, findVars, concurrentVars, indexVars, batchVars, blockVars,
                           reorgVars, processorVars>>

\* EthereumEvent.objects.erc20_events(token_address, address)
Erc20Events ==
    \E token_address \in {NULL, Some("0x70c")}, address \in {NULL, Some("0x5afe")} :
        /\ method_call' = [op |-> "erc20_events", token_address |-> token_address,
                           address |-> address,
                           returned |-> erc20_events(ethereum_events, token_address,
                                                     address)]
        /\ UNCHANGED <<registryVars, findVars, indexVars, batchVars, blockVars,
                       reorgVars, processorVars, eventVars, concurrentVars>>

\* EthereumEvent.objects.erc721_events(token_address, address)
Erc721Events ==
    \E token_address \in {NULL, Some("0x70c")}, address \in {NULL, Some("0x5afe")} :
        /\ method_call' = [op |-> "erc721_events", token_address |-> token_address,
                           address |-> address,
                           returned |-> erc721_events(ethereum_events, token_address,
                                                      address)]
        /\ UNCHANGED <<registryVars, findVars, indexVars, batchVars, blockVars,
                       reorgVars, processorVars, eventVars, concurrentVars>>

\* EthereumEvent.objects.get_or_create_erc20_or_721_event(decoded_event)
GetOrCreateErc20Or721Event ==
    \E decoded_event \in DecodedEvents :
        LET res == get_or_create_erc20_or_721_event(ethereum_events, decoded_event)
        IN  /\ ethereum_events' = res.events
            /\ method_call' =
                  IF res.raised
                  THEN [op |-> "get_or_create_erc20_or_721_event",
                        decoded_event |-> decoded_event, before |-> ethereum_events,
                        raised |-> TRUE]
                  ELSE [op |-> "get_or_create_erc20_or_721_event",
                        decoded_event |-> decoded_event, before |-> ethereum_events,
                        raised |-> FALSE, returned |-> res.returned,
                        created |-> res.created]
            /\ UNCHANGED <<registryVars, findVars, concurrentVars, indexVars, batchVars, blockVars,
                           reorgVars, processorVars>>

(***************************************************************************)
(* Two Safes on one chain, and the multisig transactions of each with the  *)
(* confirmations its execution required.                                   *)
(***************************************************************************)
\* The addresses of the Safes, in the order of the address column.
SafeAddresses == <<"0x1afe", "0x5afe">>

AddressRank(address) ==
    CHOOSE i \in 1..Len(SafeAddresses) : SafeAddresses[i] = address

\* The calls of the two Safes through the master copy: setups and executions.
TwoSafeCallBodies ==
    { [type |-> "call", callType |-> "delegatecall", from |-> safe, to |-> "0x3a57",
       input |-> c, error |-> NULL]
      : safe \in Range(SafeAddresses),
        c \in {SetupCalldata, SetupCalldata2, ExecCalldata} }

\* Where the calls can sit: three frames of 0xbb (block 1), one of 0xaa (block 2).
TwoSafeCallSlots ==
    { <<"0xbb", <<>>>>, <<"0xbb", <<1>>>>, <<"0xbb", <<2>>>>, <<"0xaa", <<0>>>> }

\* Every chain of at most MaxCalls calls, all transactions successful; the
\* first call of each Safe is a setup.
TwoSafeCallChains ==
    LET frames == { Trace(slot[1], slot[2], b) : slot \in TwoSafeCallSlots,
                                                 b \in TwoSafeCallBodies }
        setups == {SetupCalldata, SetupCalldata2}
    IN  { [status |-> [h \in Range(TxHashes) |-> 1], traces |-> l] :
            l \in { l \in UNION { [1..n -> frames] : n \in 0..MaxCalls } :
                      /\ \A i \in 1..(Len(l) - 1) : TraceBefore(l[i], l[i + 1])
                      /\ \A i \in 1..Len(l) :
                            l[i].input \notin setups =>
                                \E j \in 1..Len(l) :
                                    /\ l[j].input \in setups
                                    /\ l[j].from = l[i].from
                                    /\ ExecutedBefore(l[j], l[i]) } }

\* SafeStatusQuerySet.sorted_reverse_by_internal_tx: order_by('address',
\* '..block_id', '..transaction_index', 'internal_tx__trace_address'): r
\* comes before q; trace_address is compared as a string.
SortedReverseByInternalTxBefore(txs, r, q) ==
    LET rtx == CHOOSE t \in txs : t.tx_hash = r.internal_tx[1]
        qtx == CHOOSE t \in txs : t.tx_hash = q.internal_tx[1]
    IN  IF r.address # q.address
        THEN AddressRank(r.address) < AddressRank(q.address)
        ELSE IF Val(rtx.block_id) # Val(qtx.block_id)
        THEN Val(rtx.block_id) < Val(qtx.block_id)
        ELSE IF Val(rtx.transaction_index) # Val(qtx.transaction_index)
        THEN Val(rtx.transaction_index) < Val(qtx.transaction_index)
        ELSE StrLess(r.internal_tx[2], q.internal_tx[2])

\* The subquery of with_confirmations_required for one MultisigTransaction:
\* SafeStatus.objects.filter(internal_tx__ethereum_tx=OuterRef('ethereum_tx'))
\* .sorted_reverse_by_internal_tx().values('threshold')[:1]
threshold_query(statuses, txs, multisig_tx) ==
    LET rows == IF multisig_tx.ethereum_tx = NULL THEN {}
                ELSE { r \in statuses :
                         r.internal_tx[1] = Val(multisig_tx.ethereum_tx) }
    IN  IF rows = {} THEN NULL
        ELSE Some((CHOOSE r \in rows :
                      \A q \in rows \ {r} :
                          SortedReverseByInternalTxBefore(txs, r, q)).threshold)

\* MultisigTransactionQuerySet.with_confirmations_required: each row paired
\* with its annotation
with_confirmations_required(rows, statuses, txs) ==
    { [multisig_tx |-> mt,
       confirmations_required |-> threshold_query(statuses, txs, mt)] : mt \in rows }

\* A transaction proposed through the API: it has no ethereum_tx.
ProposeMultisigTransaction ==
    \E safe \in safe_contracts :
        /\ multisig_txs' = multisig_txs \cup
              {[safe_tx_hash |-> <<"safeTx", "proposed", safe>>, safe |-> safe,
                ethereum_tx |-> NULL, nonce |-> 0, failed |-> FALSE]}
        /\ UNCHANGED <<registryVars, findVars, indexVars, batchVars, blockVars, reorgVars,
                       eventVars, callVars, concurrentVars, safe_statuses, multisig_confirmations,
                       module_txs, processor_task>>

\* MultisigTransaction.objects.with_confirmations_required(), on the tables
\* as they are
WithConfirmationsRequired ==
    /\ multisig_txs # {}
    /\ method_call' =
          [op |-> "with_confirmations_required", safe_statuses |-> safe_statuses,
           returned |-> with_confirmations_required(multisig_txs, safe_statuses,
                                                    ethereum_txs)]
    /\ UNCHANGED <<registryVars, findVars, indexVars, batchVars, blockVars, reorgVars,
                   processorVars, eventVars, concurrentVars>>

(***************************************************************************)
(* Two indexer tasks in process_elements at once. Each runs its atomic     *)
(* block as a database transaction (READ COMMITTED): it reads the rows     *)
(* committed so far and its own; an INSERT ... ON CONFLICT DO NOTHING of a *)
(* row whose key another open transaction has inserted waits until that    *)
(* transaction ends; two transactions waiting for each other are a         *)
(* deadlock, which the database ends by aborting one of them.              *)
(***************************************************************************)
NoIndexTask ==
    [pc |-> "idle", tx_hashes |-> <<>>, internal_txs_batch |-> <<>>,
     decoded_batch |-> <<>>, position |-> 1,
     written_internal |-> {}, written_decoded |-> {}]

NoIndexTasks == [t \in Tasks |-> NoIndexTask]

\* One delegate call to the master copy in each transaction.
ConcurrentChain ==
    [status |-> [h \in Range(TxHashes) |-> 1],
     traces |-> [i \in 1..Len(TxHashes) |->
                    Trace(TxHashes[i], <<>>,
                          [type |-> "call", callType |-> "delegatecall",
                           from |-> "0x5afe", to |-> "0x3a57",
                           input |-> IF i = 1 THEN SetupCalldata ELSE ExecCalldata,
                           error |-> NULL])]]

OtherTask(t) == CHOOSE u \in Tasks : u # t

\* The rows of a table task t reads: the committed ones and its own.
ReadBy(t, table, written) == table \cup written

\* The row task t inserts next, of the InternalTx batch or the decoded batch.
NextObj(t) ==
    IF index_tasks[t].pc = "storing"
    THEN index_tasks[t].internal_txs_batch[index_tasks[t].position]
    ELSE index_tasks[t].decoded_batch[index_tasks[t].position]

\* The insert of task t waits: the other task's open transaction has
\* inserted a row with the same unique key.
Waits(t) ==
    /\ index_tasks[t].pc \in {"storing", "storing_decoded"}
    /\ LET other == index_tasks[OtherTask(t)]
       IN  \E r \in other.written_internal \cup other.written_decoded :
              /\ ("internal_tx" \in DOMAIN r) = ("internal_tx" \in DOMAIN NextObj(t))
              /\ UniqueKey(r) = UniqueKey(NextObj(t))

\* Lines 126-133 of task t: the EthereumTx rows are stored, the InternalTx
\* rows built; then the atomic block is entered.
TaskPrefetch(t) ==
    /\ index_tasks[t].pc = "idle"
    /\ \E tx_hashes \in Batches :
          LET txs == txs_create_or_update_from_tx_hashes(ethereum_txs, tx_hashes)
              traces == trace_transactions(tx_hashes)
              batch == Concat([i \in 1..Len(tx_hashes) |->
                                 [j \in 1..Len(traces[i]) |->
                                     InternalTxOfFrame(traces[i][j], txs.rows[i])]])
          IN  /\ ethereum_txs' = txs.table
              /\ index_tasks' =
                    [index_tasks EXCEPT
                        ![t] = [NoIndexTask EXCEPT !.pc = "storing",
                                                   !.tx_hashes = tx_hashes,
                                                   !.internal_txs_batch = batch]]
    /\ UNCHANGED <<registryVars, findVars, batchVars, blockVars, reorgVars, processorVars,
                   eventVars, callVars, chain, internal_txs, decoded_txs, safe_contracts>>

\* Line 139 of task t, one row of the INSERT: the row is inserted, or
\* skipped when a committed row or a row of its own has the key.
TaskStoreTrace(t) ==
    /\ index_tasks[t].pc = "storing"
    /\ ~Waits(t)
    /\ LET task == index_tasks[t]
           obj == NextObj(t)
           read == ReadBy(t, internal_txs, task.written_internal)
           stored == bulk_create_ignore_conflicts(read, <<obj>>)
           last == task.position = Len(task.internal_txs_batch)
       IN  index_tasks' =
              [index_tasks EXCEPT
                  ![t] = [task EXCEPT
                             !.written_internal = @ \cup (stored \ read),
                             !.position = IF last THEN 1 ELSE @ + 1,
                             !.pc = IF last THEN "decoding" ELSE @]]
    /\ UNCHANGED <<registryVars, findVars, batchVars, blockVars, reorgVars, processorVars,
                   eventVars, callVars, indexVars>>

\* Lines 142-155 of task t: the decoding loop over the rows it reads.
TaskDecodeTraces(t) ==
    /\ index_tasks[t].pc = "decoding"
    /\ LET task == index_tasks[t]
           read == ReadBy(t, internal_txs, task.written_internal)
           batch == DecodeBatch(read, ethereum_txs, task.internal_txs_batch)
       IN  index_tasks' =
              [index_tasks EXCEPT
                  ![t] = [task EXCEPT
                             !.decoded_batch = batch,
                             !.pc = IF batch = <<>> THEN "decoded"
                                    ELSE "storing_decoded"]]
    /\ UNCHANGED <<registryVars, findVars, batchVars, blockVars, reorgVars, processorVars,
                   eventVars, callVars, indexVars>>

\* Lines 156-157 of task t, one row of the INSERT of the decoded rows.
TaskStoreDecoded(t) ==
    /\ index_tasks[t].pc = "storing_decoded"
    /\ ~Waits(t)
    /\ LET task == index_tasks[t]
           obj == NextObj(t)
           read == ReadBy(t, decoded_txs, task.written_decoded)
           stored == bulk_create_ignore_conflicts(read, <<obj>>)
           last == task.position = Len(task.decoded_batch)
       IN  index_tasks' =
              [index_tasks EXCEPT
                  ![t] = [task EXCEPT
                             !.written_decoded = @ \cup (stored \ read),
                             !.position = IF last THEN 1 ELSE @ + 1,
                             !.pc = IF last THEN "decoded" ELSE @]]
    /\ UNCHANGED <<registryVars, findVars, batchVars, blockVars, reorgVars, processorVars,
                   eventVars, callVars, indexVars>>

\* Lines 158-159 of task t: the atomic block is left, the transaction commits.
TaskCommit(t) ==
    /\ index_tasks[t].pc = "decoded"
    /\ internal_txs' = internal_txs \cup index_tasks[t].written_internal
    /\ decoded_txs' = decoded_txs \cup index_tasks[t].written_decoded
    /\ index_tasks' = [index_tasks EXCEPT ![t].pc = "returned",
                                          ![t].written_internal = {},
                                          ![t].written_decoded = {}]
    /\ UNCHANGED <<registryVars, findVars, batchVars, blockVars, reorgVars, processorVars,
                   eventVars, callVars, chain, ethereum_txs, safe_contracts>>

\* Both transactions wait for each other: the database aborts the
\* transaction of task t, whose bulk_create raises the database error; the
\* atomic block rolls back and process_elements ends with the exception.
TaskDeadlock(t) ==
    /\ \A u \in Tasks : Waits(u)
    /\ index_tasks' = [index_tasks EXCEPT ![t].pc = "raised",
                                          ![t].written_internal = {},
                                          ![t].written_decoded = {}]
    /\ UNCHANGED <<registryVars, findVars, batchVars, blockVars, reorgVars, processorVars,
                   eventVars, callVars, indexVars>>

(***************************************************************************)
(* EthereumTx.update_with_block_and_receipt: the fields of a mined         *)
(* transaction.                                                            *)
(***************************************************************************)
\* update_fields of the save
MinedFields == {"block", "gas_used", "logs", "status", "transaction_index"}

\* A log of a receipt as the node returns it.
ReceiptLogs ==
    [address : {"0x70ce"}, topics : {<<ERC20_721_TRANSFER_TOPIC>>},
     data : {"0x", "0x01"}, logIndex : {0}, blockNumber : {1}]

\* clean_receipt_log(log): the address, data and topics of the log.
clean_receipt_log(log) ==
    [address |-> log.address, data |-> log.data, topics |-> log.topics]

\* The receipts of the node: 'logs' and 'status' may be missing.
TxReceipts ==
    LET gasUsed == {21000, 50000}
        transactionIndex == {0, 1}
        logs == {<<>>} \cup {<<l>> : l \in ReceiptLogs}
        status == {0, 1}
    IN  [gasUsed : gasUsed, transactionIndex : transactionIndex]
        \cup [gasUsed : gasUsed, transactionIndex : transactionIndex, logs : logs]
        \cup [gasUsed : gasUsed, transactionIndex : transactionIndex, status : status]
        \cup [gasUsed : gasUsed, transactionIndex : transactionIndex, logs : logs,
              status : status]

\* The blocks a caller passes.
EthereumBlocks == {1, 2}

\* An EthereumTx not yet mined: the mined fields are null.
UnminedTx ==
    [tx_hash |-> "0xaa", block |-> NULL, gas_used |-> NULL, logs |-> NULL,
     status |-> NULL, transaction_index |-> NULL]

\* A plausible slip: the fields are written whether or not the block is set.
MutUpdateAlways(self, ethereum_block, tx_receipt) ==
    [self |-> [self EXCEPT
                  !.block = Some(ethereum_block),
                  !.gas_used = Some(tx_receipt.gasUsed),
                  !.logs = Some(IF "logs" \in DOMAIN tx_receipt
                                THEN [i \in 1..Len(tx_receipt.logs) |->
                                         clean_receipt_log(tx_receipt.logs[i])]
                                ELSE <<>>),
                  !.status = IF "status" \in DOMAIN tx_receipt
                             THEN Some(tx_receipt.status) ELSE NULL,
                  !.transaction_index = Some(tx_receipt.transactionIndex)],
     update_fields |-> MinedFields]

\* EthereumTx.update_with_block_and_receipt(ethereum_block, tx_receipt):
\* the object after the call and the fields its save wrote.
update_with_block_and_receipt(self, ethereum_block, tx_receipt) ==
    IF self.block = NULL
    THEN [self |-> [self EXCEPT
                      !.block = Some(ethereum_block),
                      !.gas_used = Some(tx_receipt.gasUsed),
                      !.logs = Some(IF "logs" \in DOMAIN tx_receipt
                                    THEN [i \in 1..Len(tx_receipt.logs) |->
                                             clean_receipt_log(tx_receipt.logs[i])]
                                    ELSE <<>>),
                      !.status = IF "status" \in DOMAIN tx_receipt
                                 THEN Some(tx_receipt.status) ELSE NULL,
                      !.transaction_index = Some(tx_receipt.transactionIndex)],
          update_fields |-> MinedFields]
    ELSE [self |-> self, update_fields |-> {}]

\* One call of update_with_block_and_receipt on the EthereumTx, first or later.
UpdateWithBlockAndReceipt ==
    /\ method_call.op \in {"ethereum_tx", "update_with_block_and_receipt"}
    /\ \E ethereum_block \in EthereumBlocks, tx_receipt \in TxReceipts :
          LET result == update_with_block_and_receipt(method_call.self,
                                                      ethereum_block, tx_receipt)
          IN  method_call' = [op |-> "update_with_block_and_receipt",
                              before |-> method_call.self,
                              ethereum_block |-> ethereum_block,
                              tx_receipt |-> tx_receipt,
                              self |-> result.self,
                              update_fields |-> result.update_fields]
    /\ UNCHANGED <<registryVars, findVars, indexVars, batchVars, blockVars, reorgVars,
                   processorVars, eventVars, concurrentVars>>

(***************************************************************************)
(* The chain before any transaction is mined.                              *)
(***************************************************************************)
NoChain == [status |-> [h \in Range(TxHashes) |-> 1], traces |-> <<>>]

(***************************************************************************)
(* Specifications.                                                         *)
(***************************************************************************)
\* The parts of the state a specification does not exercise.
FreshRegistry == [a \in Addresses |-> [f \in Fields |-> Some(0)]]

RegistryIdle ==
    /\ registry = FreshRegistry
    /\ reg_call = NoRegCall

FindIdle ==
    /\ node = IdleNode
    /\ fre = NoFre

IndexIdle ==
    /\ chain = NoChain
    /\ ethereum_txs = {}
    /\ internal_txs = {}
    /\ decoded_txs = {}
    /\ safe_contracts = {}

BatchIdle == batch_task = NoBatchTask

BlocksIdle ==
    /\ blocks = {}
    /\ block_tasks = [t \in Tasks |-> NoBlockTask]

ReorgIdle ==
    /\ live = NoLive
    /\ reorg_task = NoReorgTask

EventsIdle == ethereum_events = {}

CallIdle == method_call = NoMethodCall /\ index_tasks = NoIndexTasks

ProcessorIdle ==
    /\ safe_statuses = {}
    /\ multisig_txs = {}
    /\ multisig_confirmations = {}
    /\ module_txs = {}
    /\ processor_task = NoProcessorTask

InitRegistry ==
    /\ registry \in [Addresses -> [Fields -> UNION {CursorValues(f) : f \in Fields}]]
    /\ \A a \in Addresses, f \in Fields : registry[a][f] \in CursorValues(f)
    /\ reg_call = NoRegCall
    /\ FindIdle /\ IndexIdle /\ BatchIdle /\ BlocksIdle /\ ReorgIdle /\ ProcessorIdle /\ EventsIdle /\ CallIdle

NextRegistry == UpdateAddresses

SpecRegistry == InitRegistry /\ [][NextRegistry]_vars

NextQuery == AlmostUpdated

SpecQuery == InitRegistry /\ [][NextQuery]_vars

\* The operation reads or writes the cursor tx_block_number.
OnTxBlockNumber == reg_call.database_field = "tx_block_number"

\* Every cursor tx_block_number, null ones included.
InitCursor ==
    /\ InitRegistry
    /\ \A a \in Addresses : registry[a]["erc20_block_number"] = Some(0)

\* update_addresses(..., database_field='tx_block_number')
UpdateTxBlockNumber == UpdateAddresses /\ OnTxBlockNumber'

\* almost_updated('tx_block_number', ...)
AlmostUpdatedTxBlockNumber == AlmostUpdated /\ OnTxBlockNumber'

\* not_updated('tx_block_number', ...)
NotUpdatedTxBlockNumber == NotUpdated /\ OnTxBlockNumber'

\* Every operation of the registry on the cursor, in any order.
NextCursor ==
    \/ UpdateTxBlockNumber
    \/ AlmostUpdatedTxBlockNumber
    \/ NotUpdatedTxBlockNumber

SpecCursor == InitCursor /\ [][NextCursor]_vars

InitFind ==
    /\ RegistryIdle /\ FindIdle /\ IndexIdle /\ BatchIdle /\ BlocksIdle
    /\ ReorgIdle /\ ProcessorIdle /\ EventsIdle /\ CallIdle

NextFind == FindRelevantElements

SpecFind == InitFind /\ [][NextFind]_vars

NextProvider == ProviderFindRelevantElements

SpecProvider == InitFind /\ [][NextProvider]_vars

NextLedger == LedgerFindRelevantElements

SpecLedger == InitFind /\ [][NextLedger]_vars

InitIndex ==
    /\ RegistryIdle /\ FindIdle /\ BatchIdle /\ BlocksIdle
    /\ ReorgIdle /\ ProcessorIdle /\ EventsIdle /\ CallIdle
    /\ chain \in Chains
    /\ ethereum_txs = {}
    /\ internal_txs = {}
    /\ decoded_txs = {}
    /\ safe_contracts = {}

NextIndex == ProcessElements \/ SetProcessed

SpecIndex == InitIndex /\ [][NextIndex]_vars

\* Every transaction succeeded: what a failed one adds is the same for the
\* atomic block (fewer decoded rows).
InitAtomic ==
    /\ InitIndex
    /\ \A h \in Range(TxHashes) : chain.status[h] = 1

NextAtomic ==
    \/ PrefetchBatch
    \/ StoreTraces
    \/ DecodeTraces
    \/ CommitBatch
    \/ FailBatch
    \/ RetryBatch
    \/ SetProcessed

SpecAtomic == InitAtomic /\ [][NextAtomic]_vars

InitBlocks ==
    /\ RegistryIdle /\ FindIdle /\ IndexIdle /\ BatchIdle
    /\ BlocksIdle /\ ReorgIdle /\ ProcessorIdle /\ EventsIdle /\ CallIdle

NextBlocks ==
    \/ \E t \in Tasks : GetOrCreateFromBlock(t)
    \/ \E t \in Tasks : CreateFromBlock(t)
    \/ \E t \in Tasks : GetAfterIntegrityError(t)
    \/ \E t \in Tasks : ReturnBlock(t)
    \/ SetConfirmed

SpecBlocks == InitBlocks /\ [][NextBlocks]_vars

\* Successful transactions whose frames are delegate calls of a Safe.
InitStatus ==
    /\ InitIndex
    /\ \A h \in Range(TxHashes) : chain.status[h] = 1
    /\ \A i \in 1..Len(chain.traces) :
          /\ chain.traces[i].callType = "delegatecall"
          /\ chain.traces[i].input = SetupCalldata
          /\ chain.traces[i].error = NULL

NextSafeStatus == ProcessElements \/ StoreNew

SpecStatus == InitStatus /\ [][NextSafeStatus]_vars

\* A trace of the node, not yet converted.
InitTrace ==
    /\ RegistryIdle /\ FindIdle /\ IndexIdle /\ BatchIdle /\ BlocksIdle
    /\ ReorgIdle /\ ProcessorIdle /\ EventsIdle
    /\ index_tasks = NoIndexTasks
    /\ method_call \in { [op |-> "trace", trace |-> t] : t \in TraceDicts }

NextTrace == BuildFromTrace

SpecTrace == InitTrace /\ [][NextTrace]_vars

\* No log stored yet; the events indexer stores logs and the views query them.
InitTransfers ==
    /\ RegistryIdle /\ FindIdle /\ IndexIdle /\ BatchIdle /\ BlocksIdle
    /\ ReorgIdle /\ ProcessorIdle /\ EventsIdle /\ CallIdle

NextTransfers == StoreDecodedEvent \/ Erc20Events \/ Erc721Events

SpecTransfers == InitTransfers /\ [][NextTransfers]_vars

NextEvents == GetOrCreateErc20Or721Event

SpecEvents == InitTransfers /\ [][NextEvents]_vars

\* Nothing indexed yet, over a chain of calls of two Safes.
InitThreshold ==
    /\ RegistryIdle /\ FindIdle /\ BatchIdle /\ BlocksIdle
    /\ ReorgIdle /\ ProcessorIdle /\ EventsIdle /\ CallIdle
    /\ chain \in TwoSafeCallChains
    /\ ethereum_txs = {}
    /\ internal_txs = {}
    /\ decoded_txs = {}
    /\ safe_contracts = {}

NextThreshold ==
    \/ IndexNextBatch
    \/ ProcessorStart
    \/ ProcessorApply
    \/ ProcessorCommit
    \/ ProposeMultisigTransaction
    \/ WithConfirmationsRequired

SpecThreshold == InitThreshold /\ [][NextThreshold]_vars

\* Two indexer tasks about to run, over a chain of two transactions.
InitConcurrent ==
    /\ RegistryIdle /\ FindIdle /\ BatchIdle /\ BlocksIdle
    /\ ReorgIdle /\ ProcessorIdle /\ EventsIdle /\ CallIdle
    /\ chain = ConcurrentChain
    /\ ethereum_txs = {}
    /\ internal_txs = {}
    /\ decoded_txs = {}
    /\ safe_contracts = {}

NextConcurrent ==
    \/ \E t \in Tasks : TaskPrefetch(t)
    \/ \E t \in Tasks : TaskStoreTrace(t)
    \/ \E t \in Tasks : TaskDecodeTraces(t)
    \/ \E t \in Tasks : TaskStoreDecoded(t)
    \/ \E t \in Tasks : TaskCommit(t)
    \/ \E t \in Tasks : TaskDeadlock(t)

SpecConcurrent == InitConcurrent /\ [][NextConcurrent]_vars

\* An EthereumTx stored before it was mined.
InitMined ==
    /\ RegistryIdle /\ FindIdle /\ IndexIdle /\ BatchIdle /\ BlocksIdle
    /\ ReorgIdle /\ ProcessorIdle /\ EventsIdle
    /\ index_tasks = NoIndexTasks
    /\ method_call = [op |-> "ethereum_tx", self |-> UnminedTx]

NextMined == UpdateWithBlockAndReceipt

SpecMined == InitMined /\ [][NextMined]_vars

\* Nothing indexed yet, over a chain of calls of the Safe.
InitProcessor ==
    /\ RegistryIdle /\ FindIdle /\ BatchIdle /\ BlocksIdle
    /\ ReorgIdle /\ ProcessorIdle /\ EventsIdle /\ CallIdle
    /\ chain \in SafeCallChains
    /\ ethereum_txs = {}
    /\ internal_txs = {}
    /\ decoded_txs = {}
    /\ safe_contracts = {}

NextProcessor ==
    \/ IndexNextBatch
    \/ ProcessorStart
    \/ ProcessorApply
    \/ ProcessorCommit
    \/ ProcessorFail

SpecProcessor == InitProcessor /\ [][NextProcessor]_vars

\* Nothing indexed yet; the cursor of 0xB may be unset.
InitReorg ==
    /\ registry \in { [FreshRegistry EXCEPT !["0xB"]["tx_block_number"] = c] :
                         c \in {NULL, Some(0)} }
    /\ reg_call = NoRegCall
    /\ FindIdle /\ IndexIdle /\ BatchIdle /\ BlocksIdle /\ ReorgIdle /\ ProcessorIdle /\ EventsIdle /\ CallIdle

NextReorg ==
    \/ Mine
    \/ Reorg
    \/ IndexBlock
    \/ ReorgTickStart
    \/ ReorgTickStep

SpecReorg == InitReorg /\ [][NextReorg]_vars

(***************************************************************************)
(* Claims about the registry (checked under SpecRegistry).                 *)
(***************************************************************************)
RegSelected ==
    {a \in Addresses :
        /\ a \in reg_call.addresses
        /\ ~IsNull(reg_call.before[a][reg_call.database_field])
        /\ Val(reg_call.before[a][reg_call.database_field])
              >= reg_call.from_block_number - 1}

\* C5: no update_addresses call decreases a cursor: after every call, also
\* one for a window already covered (to_block below the cursor), each
\* address's cursor is greater than or equal to its value before the call.
C5_CursorNeverDecreases ==
    reg_call.op = "update_addresses" =>
        \A a \in Addresses, f \in Fields :
            ~IsNull(reg_call.before[a][f]) =>
                /\ ~IsNull(registry[a][f])
                /\ Val(registry[a][f]) >= Val(reg_call.before[a][f])

\* C6: update_addresses sets the cursor to to_block exactly for the listed
\* rows whose cursor is >= from_block - 1, returns the number of those rows,
\* and leaves every other row (cursor < from_block - 1, or not listed) and
\* every other field unchanged.
C6_UpdateAddressesEffect ==
    reg_call.op = "update_addresses" =>
        /\ \A a \in RegSelected :
              registry[a][reg_call.database_field] = Some(reg_call.block_number)
        /\ \A a \in Addresses \ RegSelected :
              registry[a][reg_call.database_field]
                  = reg_call.before[a][reg_call.database_field]
        /\ \A a \in Addresses, f \in Fields \ {reg_call.database_field} :
              registry[a][f] = reg_call.before[a][f]
        /\ reg_call.returned = Cardinality(RegSelected)

\* A call that advanced one listed row and skipped a listed row whose cursor
\* had been rewound below from_block - 1.
C6_Witness ==
    /\ reg_call.op = "update_addresses"
    /\ reg_call.returned = 1
    /\ \E a \in reg_call.addresses, b \in reg_call.addresses :
          /\ a \in RegSelected
          /\ registry[a][reg_call.database_field]
                # reg_call.before[a][reg_call.database_field]
          /\ ~IsNull(reg_call.before[b][reg_call.database_field])
          /\ Val(reg_call.before[b][reg_call.database_field])
                < reg_call.from_block_number - 1
          /\ registry[b] = reg_call.before[b]

(***************************************************************************)
(* Claims about trace discovery (checked under SpecFind).                  *)
(***************************************************************************)
\* T_recent = max(head - number_trace_blocks, 0), head being the
\* current_block_number argument, or the node's head when none is passed.
TRecent ==
    LET head == IF fre.current_block_number = NULL \/ fre.current_block_number = Some(0)
                THEN node.current_block_number
                ELSE fre.current_block_number[1]
    IN  IF head - number_trace_blocks > 0 THEN head - number_trace_blocks ELSE 0

IsFilterCall(rpc, from_block, to_block, param) ==
    /\ rpc.method = "trace_filter"
    /\ rpc.from_block = from_block
    /\ rpc.to_block = to_block
    /\ rpc.param = param
    /\ rpc.addresses = fre.addresses

IsBlocksCall(rpc, from_block, to_block) ==
    /\ rpc.method = "trace_blocks"
    /\ Len(rpc.block_numbers) = to_block - from_block + 1
    /\ \A i \in 1..Len(rpc.block_numbers) : rpc.block_numbers[i] = from_block + i - 1

\* The hashes of the traces one RPC call returned that count as relevant:
\* every trace of a trace_filter answer, and the traces of a trace_blocks
\* answer whose sender or recipient is one of the addresses.
RelevantHashes(rpc) ==
    LET all == Concat(rpc.answer)
        kept == IF rpc.method = "trace_filter" THEN all
                ELSE SelectSeq(all, LAMBDA t : t.from \in fre.addresses
                                               \/ t.to \in fre.addresses)
    IN  [i \in 1..Len(kept) |-> kept[i].transactionHash]

AllRelevantHashes == Concat([i \in 1..Len(fre.log) |-> RelevantHashes(fre.log[i])])

FirstIndex(s, x) == CHOOSE i \in 1..Len(s) : s[i] = x /\ \A j \in 1..(i - 1) : s[j] # x

NoDuplicates(s) == \A i, j \in 1..Len(s) : i # j => s[i] # s[j]

\* C7: from > T_recent: only trace_block is used, over every block from..to;
\* from <= T_recent and to < T_recent: only trace_filter is used, one query
\* with to_address=addresses and one with from_address=addresses over
\* [from, to], and the result is the union of both answers.
C7_StrategyBlockOrFilter ==
    fre.outcome # "none" =>
        /\ fre.from_block_number > TRecent =>
              /\ \A i \in 1..Len(fre.log) : fre.log[i].method = "trace_blocks"
              /\ Len(fre.log) = 1
              /\ IsBlocksCall(fre.log[1], fre.from_block_number, fre.to_block_number)
        /\ (fre.from_block_number <= TRecent /\ fre.to_block_number < TRecent) =>
              /\ \A i \in 1..Len(fre.log) : fre.log[i].method = "trace_filter"
              /\ IsFilterCall(fre.log[1], fre.from_block_number,
                              fre.to_block_number, "to_address")
              /\ fre.outcome = "returned" =>
                    /\ Len(fre.log) = 2
                    /\ IsFilterCall(fre.log[2], fre.from_block_number,
                                    fre.to_block_number, "from_address")
                    /\ Range(fre.tx_hashes)
                          = Range(Hashes(fre.log[1].answer[1]))
                            \cup Range(Hashes(fre.log[2].answer[1]))

\* A trace_filter-only call whose two queries both returned traces.
C7_Witness ==
    /\ fre.outcome = "returned"
    /\ fre.from_block_number <= TRecent
    /\ fre.to_block_number < TRecent
    /\ Len(fre.log) = 2
    /\ fre.log[1].answer[1] # <<>>
    /\ fre.log[2].answer[1] # <<>>
    /\ Len(fre.tx_hashes) = 2

C9_InsertionOrderedSet ==
    fre.outcome = "returned" =>
        /\ Range(fre.tx_hashes) = Range(AllRelevantHashes)
        /\ NoDuplicates(fre.tx_hashes)
        /\ \A i, j \in 1..Len(fre.tx_hashes) :
              i < j => FirstIndex(AllRelevantHashes, fre.tx_hashes[i])
                          < FirstIndex(AllRelevantHashes, fre.tx_hashes[j])

\* A call whose answers held the same hash twice.
C9_Witness ==
    /\ fre.outcome = "returned"
    /\ Len(AllRelevantHashes) = 2
    /\ Len(fre.tx_hashes) = 1

\* C10: when an RPC call of find_relevant_elements fails with a network
\* error, the call raises FindRelevantElementsException and returns no tx
\* hash, also when the trace_filter half of a hybrid call had succeeded, and
\* it changes no stored row and no cursor.
C10_NetworkErrorDiscardsAll ==
    [][(fre'.outcome # "none" /\ fre.outcome = "none" /\ node'.fail_at # 0) =>
          /\ fre'.outcome = "FindRelevantElementsException"
          /\ fre'.tx_hashes = <<>>
          /\ fre'.log[Len(fre'.log)].failed
          /\ UNCHANGED <<registry, ethereum_txs, internal_txs, decoded_txs,
                       safe_contracts>>]_vars

\* A hybrid call whose trace_filter half returned a trace before trace_block failed.
C10_Witness ==
    /\ fre.outcome = "FindRelevantElementsException"
    /\ Len(fre.log) = 3
    /\ fre.log[3].failed
    /\ fre.log[1].answer[1] # <<>>

(***************************************************************************)
(* Claims about trace persistence (checked under SpecIndex).               *)
(***************************************************************************)
RECURSIVE StrToInt(_)
StrToInt(digits) ==
    IF digits = <<>> THEN 0
    ELSE StrToInt(SubSeq(digits, 1, Len(digits) - 1)) * 10
         + (CharCode(digits[Len(digits)]) - 48)

\* The integers of a stored trace_address, the empty string being the root.
RECURSIVE TraceAddressOf(_)
TraceAddressOf(str) ==
    IF str = <<>> THEN <<>>
    ELSE IF \E i \in 1..Len(str) : str[i] = ","
    THEN LET c == CHOOSE i \in 1..Len(str) :
                      str[i] = "," /\ \A j \in 1..(i - 1) : str[j] # ","
         IN  <<StrToInt(SubSeq(str, 1, c - 1))>>
             \o TraceAddressOf(SubSeq(str, c + 1, Len(str)))
    ELSE <<StrToInt(str)>>

IsPrefix(a, b) == Len(a) <= Len(b) /\ SubSeq(b, 1, Len(a)) = a

IsStrictPrefix(a, b) == Len(a) < Len(b) /\ IsPrefix(a, b)

\* Row r is an ancestor frame, in the call tree of the same transaction, of
\* the frame with key <<tx_hash, trace_address>>.
IsAncestorOf(r, key) ==
    /\ r.ethereum_tx = key[1]
    /\ IsStrictPrefix(TraceAddressOf(r.trace_address), TraceAddressOf(key[2]))

HasErroredAncestor(key) ==
    \E r \in internal_txs : IsAncestorOf(r, key) /\ r.error # NULL

TxOf(tx_hash) == CHOOSE t \in ethereum_txs : t.tx_hash = tx_hash

\* C1: after any sequence of process_elements calls, no InternalTxDecoded
\* row exists whose InternalTx has, in the same transaction, a trace with a
\* non-null error whose trace_address is a prefix of its own.
C1_ParentErrorExclusion ==
    \A d \in decoded_txs :
        ~\E r \in internal_txs :
            /\ r.ethereum_tx = d.internal_tx[1]
            /\ IsPrefix(TraceAddressOf(r.trace_address), TraceAddressOf(d.internal_tx[2]))
            /\ r.error # NULL

\* An indexed delegate call with decodable calldata in a successful
\* transaction, under an errored ancestor, that got no decoded row.
C1_Witness ==
    \E it \in internal_txs :
        /\ it.call_type = Some(DELEGATE_CALL)
        /\ it.error = NULL
        /\ it.data = Some(SetupCalldata)
        /\ TxOf(it.ethereum_tx).status = Some(1)
        /\ HasErroredAncestor(InternalTxKey(it))
        /\ \A d \in decoded_txs : d.internal_tx # InternalTxKey(it)

\* C2: can_be_decoded is true if and only if the call is a DELEGATE_CALL, its
\* error is null, its data is non-empty, the EthereumTx status is 1 and no
\* ancestor frame of the same transaction (trace_address a strict prefix as
\* a sequence of integers) has an error; an errored frame that is not an
\* ancestor, such as a sibling, does not make it undecodable.
C2_CanBeDecodedIff ==
    \A it \in internal_txs :
        can_be_decoded(internal_txs, it, TxOf(it.ethereum_tx))
        <=> /\ it.call_type = Some(DELEGATE_CALL)
            /\ it.error = NULL
            /\ it.data # NULL /\ it.data # Some("")
            /\ TxOf(it.ethereum_tx).status = Some(1)
            /\ ~HasErroredAncestor(InternalTxKey(it))

\* The canonical order: block number, transaction index, then trace_address
\* compared as a sequence of integers.
CanonicalBefore(d, e) ==
    LET dtx == TxOf(d.internal_tx[1])
        etx == TxOf(e.internal_tx[1])
    IN  IF dtx.block_id # etx.block_id THEN dtx.block_id[1] < etx.block_id[1]
        ELSE IF dtx.transaction_index # etx.transaction_index
        THEN dtx.transaction_index[1] < etx.transaction_index[1]
        ELSE IntSeqLess(TraceAddressOf(d.internal_tx[2]), TraceAddressOf(e.internal_tx[2]))

\* C3: pending_for_safes yields the pending rows in ascending canonical
\* order, trace_address compared as a sequence of integers, not as a string.
C3_PendingCanonicalOrder ==
    \A i, j \in 1..Len(pending_for_safes) :
        i < j => CanonicalBefore(pending_for_safes[i], pending_for_safes[j])

\* A batch of tx hashes that were all indexed before.
IsIndexed(tx_hashes) ==
    \A h \in Range(tx_hashes) : \E t \in ethereum_txs : t.tx_hash = h

\* C4: process_elements over tx hashes already indexed, the node returning
\* the same traces, creates no InternalTx and no InternalTxDecoded row and
\* leaves every stored row as it is.
C4_ReindexChangesNothing ==
    [][(\E tx_hashes \in Batches : IsIndexed(tx_hashes) /\ process_elements(tx_hashes))
          => UNCHANGED <<internal_txs, decoded_txs>>]_vars

\* Both transactions indexed, with a decoded row the processor has consumed
\* and one it has not: the state a second run starts from.
C4_Witness ==
    /\ IsIndexed(TxHashes)
    /\ \E d \in decoded_txs : d.processed
    /\ \E d \in decoded_txs : ~d.processed

(***************************************************************************)
(* Claims about the atomic block of process_elements (SpecAtomic).         *)
(***************************************************************************)
\* C11: the InternalTx rows of a batch and their InternalTxDecoded rows are
\* stored in one atomic step: in every state another task can see, every
\* InternalTxDecoded row has its InternalTx row, a batch still inside the
\* block shows none of its rows, and a batch that failed after the InternalTx
\* insert has left neither its InternalTx rows nor its decoded rows.
C11_AtomicBatch ==
    /\ \A d \in decoded_txs : \E it \in internal_txs : InternalTxKey(it) = d.internal_tx
    /\ batch_task.pc \in {"stored", "decoded", "failed"} =>
          /\ batch_task.written_internal \cap internal_txs = {}
          /\ \A w \in batch_task.written_decoded :
                \A d \in decoded_txs : DecodedKey(d) # DecodedKey(w)

\* A batch that failed after it had inserted InternalTx rows and decoded rows.
C11_Witness ==
    /\ batch_task.pc = "failed"
    /\ batch_task.written_internal # {}
    /\ batch_task.written_decoded # {}

(***************************************************************************)
(* Claims about the block store (SpecBlocks).                              *)
(***************************************************************************)
\* The stored row a finished call returned, as it is stored now.
StoredRowOf(result) ==
    { r \in blocks : r.number = result.number /\ r.block_hash = result.block_hash
                     /\ r.parent_hash = result.parent_hash }

\* C12: get_or_create_from_block is idempotent on the block number: under
\* every interleaving of calls, two tasks inserting the same number at once
\* included, at most one row exists per number, a call never modifies a
\* stored row, and every call returns the stored row of its number.
C12_GetOrCreateIdempotent ==
    /\ [](\A b1, b2 \in blocks : b1.number = b2.number => b1 = b2)
    /\ [](\A t \in Tasks :
            /\ block_tasks[t].pc # "raised"
            /\ block_tasks[t].pc = "returned" =>
                  /\ Val(block_tasks[t].result).number = block_tasks[t].block.number
                  /\ StoredRowOf(Val(block_tasks[t].result)) # {})
    /\ [][block_tasks' # block_tasks => blocks \subseteq blocks']_vars

\* Two tasks inserted the same number at once: one insert failed, and that
\* call returned the row the other call stored.
C12_Witness ==
    \E t, u \in Tasks :
        /\ t # u
        /\ block_tasks[t].pc = "returned" /\ block_tasks[u].pc = "returned"
        /\ block_tasks[t].block.number = block_tasks[u].block.number
        /\ Val(block_tasks[t].result).block_hash = block_tasks[t].block.hash
        /\ Val(block_tasks[u].result).block_hash # block_tasks[u].block.hash
        /\ Cardinality(blocks) = 1

\* C13: a call with a block whose number is stored with a different hash
\* does not return the stored row as if it were the same block (the
\* divergence is signalled as a reorg instead).
C13_DivergentHashNotReturned ==
    \A t \in Tasks :
        block_tasks[t].pc = "returned" =>
            Val(block_tasks[t].result).block_hash = block_tasks[t].block.hash

\* C18: block confirmation is one-way: a block is created with the caller's
\* confirmed argument (false by default), and no step changes confirmed from
\* true to false, or the hashes of a stored block; set_confirmed changes
\* only confirmed, to true.
C18_ConfirmationOneWay ==
    [][/\ \A b \in blocks :
            \E c \in blocks' :
                /\ c.number = b.number
                /\ c.block_hash = b.block_hash
                /\ c.parent_hash = b.parent_hash
                /\ b.confirmed => c.confirmed
       /\ \A c \in blocks' :
            (\A b \in blocks : b.number # c.number) =>
                \E t \in Tasks :
                    /\ block_tasks[t].pc = "create"
                    /\ c = EthereumBlock(block_tasks[t].block, block_tasks[t].confirmed)
       /\ block_tasks' = block_tasks =>
            \E b \in blocks : blocks' = (blocks \ {b}) \cup {[b EXCEPT !.confirmed = TRUE]}
      ]_vars

\* A stored block is confirmed that a call had returned while unconfirmed.
C18_Witness ==
    \E b \in blocks, t \in Tasks :
        /\ b.confirmed
        /\ block_tasks[t].pc = "returned"
        /\ Val(block_tasks[t].result).number = b.number
        /\ ~Val(block_tasks[t].result).confirmed

(***************************************************************************)
(* Claims about SafeStatus (SpecStatus).                                   *)
(***************************************************************************)
\* Snapshot r is later than snapshot q in canonical order.
CanonicalAfter(r, q) ==
    LET rtx == TxOf(r.internal_tx[1])
        qtx == TxOf(q.internal_tx[1])
    IN  IF rtx.block_id # qtx.block_id THEN rtx.block_id[1] > qtx.block_id[1]
        ELSE IF rtx.transaction_index # qtx.transaction_index
        THEN rtx.transaction_index[1] > qtx.transaction_index[1]
        ELSE IntSeqLess(TraceAddressOf(q.internal_tx[2]), TraceAddressOf(r.internal_tx[2]))

StatusAddresses == { r.address : r \in safe_statuses }

\* C19: for every Safe, last_for_address returns the SafeStatus row that is
\* greatest in canonical order (block number, transaction index,
\* trace_address as a sequence of integers), and none exactly when the Safe
\* has no row.
C19_LastIsCanonicalGreatest ==
    \A address \in StatusAddresses \cup {"0x0"} :
        LET rows == { r \in safe_statuses : r.address = address }
            last == last_for_address(safe_statuses, ethereum_txs, address)
        IN  /\ IsNull(last) <=> rows = {}
            /\ ~IsNull(last) =>
                  /\ Val(last) \in rows
                  /\ \A q \in rows \ {Val(last)} : CanonicalAfter(Val(last), q)

\* C20: SafeStatus is append-only: storing the status of an InternalTx that
\* had none adds exactly one row and leaves every stored row as it was, so
\* the rows of a Safe never get fewer and no snapshot is rewritten.
C20_StatusAppendOnly ==
    [][safe_statuses' # safe_statuses =>
          /\ safe_statuses \subseteq safe_statuses'
          /\ Cardinality(safe_statuses') = Cardinality(safe_statuses) + 1
          /\ \E internal_tx \in internal_txs :
                /\ \A r \in safe_statuses : r.internal_tx # InternalTxKey(internal_tx)
                /\ \E r \in safe_statuses' \ safe_statuses :
                      r.internal_tx = InternalTxKey(internal_tx)
      ]_vars

\* A Safe with two snapshots, the second built from the first.
C20_Witness ==
    \E r, q \in safe_statuses :
        r.address = q.address /\ r.nonce = 0 /\ q.nonce = 1

(***************************************************************************)
(* Claims about reorgs (SpecReorg).                                        *)
(***************************************************************************)
\* This step deletes stored blocks: it is the rollback.
IsRollbackStep == \E b \in blocks : \A c \in blocks' : c.number # b.number

\* The number the rollback of this step starts at.
RollbackNumber ==
    CHOOSE n \in Heights :
        /\ \E b \in blocks : b.number = n /\ \A c \in blocks' : c.number # n
        /\ \A b \in blocks : b.number < n => \E c \in blocks' : c.number = b.number

\* The block of a stored transaction, before the step.
BlockOfTx(tx_hash) == Val(TxOf(tx_hash).block_id)

\* C14: a rollback at stored block number H removes every EthereumTx,
\* InternalTx, InternalTxDecoded, SafeStatus, ModuleTransaction and
\* execution MultisigConfirmation whose block is >= H, leaves the rows of
\* blocks < H as they are, and keeps every MultisigTransaction, with
\* ethereum_tx unset for those whose executing transaction was deleted.
C14_RollbackCascade ==
    [][IsRollbackStep =>
          LET H == RollbackNumber
              Kept(tx_hash) == BlockOfTx(tx_hash) < H
          IN  /\ blocks' = { b \in blocks : b.number < H }
              /\ ethereum_txs' = { t \in ethereum_txs : Val(t.block_id) < H }
              /\ internal_txs' = { r \in internal_txs : Kept(r.ethereum_tx) }
              /\ decoded_txs' = { r \in decoded_txs : Kept(r.internal_tx[1]) }
              /\ safe_statuses' = { r \in safe_statuses : Kept(r.internal_tx[1]) }
              /\ module_txs' = { r \in module_txs : Kept(r.internal_tx[1]) }
              /\ multisig_confirmations' =
                    { r \in multisig_confirmations :
                        IsNull(r.ethereum_tx) \/ Kept(Val(r.ethereum_tx)) }
              /\ multisig_txs' =
                    { IF IsNull(r.ethereum_tx) \/ Kept(Val(r.ethereum_tx)) THEN r
                      ELSE [r EXCEPT !.ethereum_tx = NULL] : r \in multisig_txs }
              /\ Cardinality(multisig_txs') = Cardinality(multisig_txs)
      ]_vars

\* After a rollback: a multisig transaction whose execution was retracted,
\* next to rows of older blocks that are still there.
C14_Witness ==
    /\ \E mt \in multisig_txs :
          /\ IsNull(mt.ethereum_tx)
          /\ \A t \in ethereum_txs : t.tx_hash # mt.safe_tx_hash[2]
    /\ blocks # {}
    /\ safe_statuses # {}

\* C15: after a rollback at stored block number H every monitored cursor is
\* min(its previous value, H - 1): all cursors are <= H - 1, none was
\* increased, and an update_addresses for a window starting above the
\* rewound cursor + 1 does not select (so does not advance) it.
C15_RollbackRewindsCursors ==
    [][IsRollbackStep =>
          LET H == RollbackNumber
          IN  \A a \in Addresses, f \in Fields :
                 IF IsNull(registry[a][f]) THEN IsNull(registry'[a][f])
                 ELSE /\ registry'[a][f] = Some(Min(Val(registry[a][f]), H - 1))
                      /\ Val(registry'[a][f]) <= H - 1
                      /\ Val(registry'[a][f]) <= Val(registry[a][f])
                      /\ \A from_block_number \in 0..(MaxHead + 1) :
                            from_block_number > Val(registry'[a][f]) + 1 =>
                                a \notin UpdateFilter(registry', Addresses,
                                                      from_block_number, f)
      ]_vars

\* After a rollback at block 2 (the retracted execution of its transaction
\* shows it): the cursor of 0xA was rewound to 1, the lower cursor of 0xB
\* was left at 0.
C15_Witness ==
    /\ \E mt \in multisig_txs : IsNull(mt.ethereum_tx) /\ mt.safe_tx_hash[2][2] = 2
    /\ { b.number : b \in blocks } = {1}
    /\ registry["0xA"]["tx_block_number"] = Some(1)
    /\ registry["0xB"]["tx_block_number"] = Some(0)

\* Indexing the first `number` blocks of the node's chain from an empty database.
RECURSIVE Replay(_)
Replay(number) ==
    IF number = 0 THEN EmptyDatabase
    ELSE index_block(Replay(number - 1), LiveBlock(number))

\* Every stored block is the node's block, and the chain is indexed up to its head.
Reindexed ==
    /\ reorg_task.pc = "idle"
    /\ registry["0xA"]["tx_block_number"] = Some(live.head)
    /\ { b.number : b \in blocks } = 1..live.head
    /\ \A b \in blocks : b.block_hash = LiveBlock(b.number).hash

\* C16: after a reorg, the rollback and the re-indexing of the new chain,
\* the derived tables equal those of indexing the new chain from an empty
\* database.
C16_ReindexEqualsFreshReplay ==
    Reindexed =>
        LET fresh == Replay(live.head)
        IN  /\ internal_txs = fresh.internal_txs
            /\ decoded_txs = fresh.decoded_txs
            /\ safe_statuses = fresh.safe_statuses
            /\ module_txs = fresh.module_txs
            /\ multisig_confirmations = fresh.multisig_confirmations
            /\ multisig_txs = fresh.multisig_txs

\* C17: in a tick of the reorg handler a block is marked confirmed only if
\* the node's block of that number has the same hash and head - number >=
\* REORG_DEPTH; the blocks are examined in ascending number order; on the
\* first hash mismatch the rollback is done and the tick stops, no later
\* block being confirmed.
C17_ReorgTick ==
    [][/\ \A b \in blocks, c \in blocks' :
            (c.number = b.number /\ ~b.confirmed /\ c.confirmed) =>
                /\ b.block_hash = LiveBlock(b.number).hash
                /\ live.head - b.number >= REORG_DEPTH
                /\ reorg_task.pc = "scan" /\ b.number = Head(reorg_task.queue)
       /\ (reorg_task.pc = "scan" /\ reorg_task' # reorg_task) =>
            LET number == Head(reorg_task.queue)
                stored == CHOOSE b \in blocks : b.number = number
            IN  /\ \A i \in 2..Len(reorg_task.queue) : number < reorg_task.queue[i]
                /\ IF stored.block_hash = LiveBlock(number).hash
                   THEN /\ reorg_task'.queue = Tail(reorg_task.queue)
                        /\ { c.number : c \in blocks' } = { b.number : b \in blocks }
                   ELSE /\ blocks' = { b \in blocks : b.number < number }
                        /\ reorg_task'.pc = "idle"
      ]_vars

\* A tick that has confirmed a block and now meets a block of another hash.
C17_Witness ==
    /\ reorg_task.pc = "scan"
    /\ \E b \in blocks : b.confirmed /\ b.number < Head(reorg_task.queue)
    /\ \E b \in blocks :
          /\ b.number = Head(reorg_task.queue)
          /\ b.block_hash # LiveBlock(b.number).hash
(***************************************************************************)
(* Claims about the registry queries (SpecQuery).                          *)
(***************************************************************************)
\* C26: almost_updated(field, head, updated_behind, confirmations) returns
\* exactly the rows whose cursor c satisfies
\* head - updated_behind <= c <= head - confirmations, both endpoints
\* included.
C26_AlmostUpdatedInclusive ==
    reg_call.op = "almost_updated" =>
        reg_call.returned =
            {a \in Addresses :
                /\ ~IsNull(registry[a][reg_call.database_field])
                /\ reg_call.current_block_number - reg_call.updated_blocks_behind
                      <= Val(registry[a][reg_call.database_field])
                /\ Val(registry[a][reg_call.database_field])
                      <= reg_call.current_block_number - reg_call.confirmations}

(***************************************************************************)
(* Claims about the module trace and the decode loop (SpecIndex).          *)
(***************************************************************************)
\* The traces of the transaction of `internal_tx` that come before it in
\* trace order and are not delegate calls.
PrecedingCalls(internal_tx) ==
    { r \in internal_txs :
        /\ r.ethereum_tx = internal_tx.ethereum_tx
        /\ IntSeqLess(TraceAddressOf(r.trace_address),
                      TraceAddressOf(internal_tx.trace_address))
        /\ ~is_delegate_call(r) }

\* C22: for a delegate-call trace t, get_previous_module_trace returns the
\* nearest trace preceding t in the transaction's trace order that is not a
\* delegate call, and none exactly when no such trace exists; with trace []
\* the call of module M to the Safe and the next trace the delegate call,
\* the trace resolved is trace [].
C22_PreviousModuleTrace ==
    \A t \in internal_txs :
        is_delegate_call(t) =>
            LET calls == PrecedingCalls(t)
                found == get_previous_module_trace(internal_txs, t)
            IN  IF calls = {} THEN found = NULL
                ELSE found = Some(CHOOSE r \in calls :
                                    \A q \in calls \ {r} :
                                        IntSeqLess(TraceAddressOf(q.trace_address),
                                                   TraceAddressOf(r.trace_address)))

\* The decoder raises CannotDecode for the calldata of this row.
CannotDecode(internal_tx) ==
    ~IsNull(internal_tx.data) /\ decode_transaction(Val(internal_tx.data)) = <<>>

\* C23: when the decoder raises CannotDecode for a decodable InternalTx,
\* process_elements raises nothing: that InternalTx stays stored without an
\* InternalTxDecoded row, and every other decodable trace of the batch has
\* its InternalTxDecoded row, with processed=false when the call created it.
C23_CannotDecodeSkipped ==
    [][\A tx_hashes \in Batches :
          process_elements(tx_hashes) =>
             \A it \in internal_txs' :
                (/\ it.ethereum_tx \in Range(tx_hashes)
                 /\ can_be_decoded(internal_txs', it,
                        CHOOSE t \in ethereum_txs' : t.tx_hash = it.ethereum_tx))
                => IF CannotDecode(it)
                   THEN \A d \in decoded_txs' : d.internal_tx # InternalTxKey(it)
                   ELSE \E d \in decoded_txs' :
                           /\ d.internal_tx = InternalTxKey(it)
                           /\ d \notin decoded_txs => ~d.processed]_vars

\* A transaction indexed with two decodable frames: the decoder refused the
\* first and the later one has its decoded row.
C23_Witness ==
    \E it \in internal_txs, d \in decoded_txs :
        /\ can_be_decoded(internal_txs, it, TxOf(it.ethereum_tx))
        /\ CannotDecode(it)
        /\ \A e \in decoded_txs : e.internal_tx # InternalTxKey(it)
        /\ d.internal_tx[1] = it.ethereum_tx
        /\ StrLess(it.trace_address, d.internal_tx[2])
        /\ ~d.processed

TraceBlockDiscovery ==
    LET calls == _find_relevant_elements_using_trace_block(
                     IdleNode, 0, fre.addresses, fre.from_block_number,
                     fre.to_block_number).log
    IN  _find_relevant_elements_using_trace_block(
            LedgerNode(node.ledger, calls), 0, fre.addresses,
            fre.from_block_number, fre.to_block_number)

\* C25: for a window [from, to] with to < T_recent and a node whose
\* trace_filter returns exactly the traces of the range whose sender or
\* recipient is a monitored address, the set of tx hashes found with
\* trace_filter equals the set found with trace_block over the same window
\* and addresses.
C25_DiscoveryEquivalence ==
    (fre.outcome = "returned" /\ fre.to_block_number < TRecent) =>
        /\ \A i \in 1..Len(fre.log) : fre.log[i].method = "trace_filter"
        /\ ~TraceBlockDiscovery.raised
        /\ Range(fre.tx_hashes) = Range(TraceBlockDiscovery.tx_hashes)

\* A trace_filter window over two blocks in which both queries return the
\* transaction 0x01 and one of them another transaction.
C25_Witness ==
    /\ fre.outcome = "returned"
    /\ fre.to_block_number < TRecent
    /\ fre.from_block_number < fre.to_block_number
    /\ Len(fre.log) = 2
    /\ "0x01" \in Range(Hashes(fre.log[1].answer[1]))
    /\ "0x01" \in Range(Hashes(fre.log[2].answer[1]))
    /\ Len(fre.tx_hashes) = 2

(***************************************************************************)
(* Claims about the processor (SpecProcessor).                             *)
(***************************************************************************)
\* The sender of the InternalTx of a decoded row.
SenderOf(d) == Val(InternalTxOf(internal_txs, d)._from)

\* C21: the pending queue holds exactly the InternalTxDecoded rows with
\* processed=false whose InternalTx sender is a registered SafeContract
\* address or whose function_name is "setup"; a processed row never comes
\* back into the queue; an unprocessed non-setup row of an unregistered
\* address enters the queue once that address is registered.
C21_PendingQueue ==
    /\ [](/\ Range(pending_for_safes) =
                { d \in decoded_txs :
                    /\ ~d.processed
                    /\ SenderOf(d) \in safe_contracts \/ d.function_name = "setup" }
          /\ NoDuplicates(pending_for_safes))
    /\ [][\A d \in decoded_txs :
             d.processed =>
                /\ \E e \in decoded_txs' : e.internal_tx = d.internal_tx /\ e.processed
                /\ \A e \in Range(pending_for_safes') : e.internal_tx # d.internal_tx]_vars
    /\ [][\A d \in decoded_txs :
             (/\ ~d.processed
              /\ d.function_name # "setup"
              /\ SenderOf(d) \notin safe_contracts
              /\ SenderOf(d) \in safe_contracts')
             => d \in Range(pending_for_safes')]_vars

\* The setup of the Safe was processed and registered it: its execTransaction,
\* indexed before, is in the queue now, and the setup row is not.
C21_Witness ==
    /\ \E d \in Range(pending_for_safes) :
          d.function_name = "execTransaction" /\ SenderOf(d) \in safe_contracts
    /\ \E e \in decoded_txs : e.processed /\ e.function_name = "setup"
    /\ processor_task.pc = "idle"

\* C27: for each Safe whose only mutations after setup are execTransaction
\* calls, the nonces of its SafeStatus rows taken in canonical order are
\* 0, 1, 2, ... without gap or repetition, whatever the batches of the
\* processor, executions with failed=true included.
C27_NonceProgression ==
    \A r \in safe_statuses :
        r.nonce = Cardinality({ q \in safe_statuses :
                                  q.address = r.address /\ CanonicalAfter(r, q) })

\* The step commits the transaction of the decoded call at the head of the
\* processor's queue.
IsCommitStep ==
    /\ processor_task.pc = "applied"
    /\ processor_task'.pc # "applied"
    /\ decoded_txs' # decoded_txs

\* C28: the first setup processed for a Safe address creates its initial
\* SafeStatus, with nonce 0, the given owners and threshold, master_copy the
\* target of the trace and no enabled module, and registers the Safe; a
\* later setup for the same address creates no SafeStatus and changes none,
\* and is still marked processed.
C28_SetupOnce ==
    [][IsCommitStep =>
          LET d == Head(processor_task.queue)
              it == InternalTxOf(internal_txs, d)
              safe == Val(it._from)
          IN  d.function_name = "setup" =>
                /\ safe \in safe_contracts'
                /\ [d EXCEPT !.processed = TRUE] \in decoded_txs'
                /\ d \notin decoded_txs'
                /\ IF \A r \in safe_statuses : r.address # safe
                   THEN safe_statuses' = safe_statuses \cup
                            {[internal_tx |-> d.internal_tx, address |-> safe,
                              nonce |-> 0,
                              owners |-> SetupArguments(d.arguments).owners,
                              threshold |-> SetupArguments(d.arguments).threshold,
                              master_copy |-> Val(it.to),
                              enabled_modules |-> {}]}
                   ELSE safe_statuses' = safe_statuses
      ]_vars

\* Two setup calls of the Safe with different arguments were processed: the
\* Safe has the one snapshot of the first.
C28_Witness ==
    /\ \E d, e \in decoded_txs :
          /\ d.function_name = "setup" /\ e.function_name = "setup"
          /\ d.processed /\ e.processed
          /\ d.arguments # e.arguments
          /\ \E r \in safe_statuses :
                /\ r.internal_tx = d.internal_tx
                /\ r.owners = SetupArguments(d.arguments).owners
    /\ Cardinality(safe_statuses) = 1
    /\ safe_contracts = {"0x5afe"}

\* The key of the MultisigTransaction the execution of a decoded call gives.
SafeTxHashOf(d) == <<"safeTx", d.internal_tx[1], d.internal_tx[2]>>

\* Some row derived from the decoded call is stored.
HasEffect(d) ==
    \/ \E r \in safe_statuses \cup module_txs : r.internal_tx = d.internal_tx
    \/ \E mt \in multisig_txs : mt.safe_tx_hash = SafeTxHashOf(d)
    \/ \E mc \in multisig_confirmations : mc.multisig_transaction_hash = SafeTxHashOf(d)

\* Every row the decoded call leads to is stored.
EffectStored(d) ==
    IF d.function_name = "setup"
    THEN /\ SenderOf(d) \in safe_contracts
         /\ \E r \in safe_statuses : r.address = SenderOf(d)
    ELSE IF d.function_name = "execTransaction"
    THEN /\ \E r \in safe_statuses : r.internal_tx = d.internal_tx
         /\ \E mt \in multisig_txs :
               /\ mt.safe_tx_hash = SafeTxHashOf(d)
               /\ mt.ethereum_tx = Some(d.internal_tx[1])
         /\ \E mc \in multisig_confirmations :
               mc.multisig_transaction_hash = SafeTxHashOf(d)
    ELSE \E r \in module_txs : r.internal_tx = d.internal_tx

\* C29: processing one decoded call is atomic: in every visible state a
\* decoded row has processed=true if and only if its effect (the new
\* SafeStatus, the MultisigTransaction or ModuleTransaction rows) is stored;
\* when processing raises an exception the row keeps processed=false, none
\* of its effects is stored and the row stays in the pending queue.
C29_ProcessingAtomic ==
    /\ [](\A d \in decoded_txs :
             /\ d.processed => EffectStored(d)
             /\ ~d.processed => ~HasEffect(d))
    /\ [][(processor_task.pc = "applied" /\ ~IsCommitStep
            /\ processor_task' # processor_task)
          => LET d == Head(processor_task.queue)
             IN  /\ UNCHANGED <<indexVars, safe_statuses, multisig_txs,
                                multisig_confirmations, module_txs>>
                 /\ d \in decoded_txs' /\ ~d.processed
                 /\ ~HasEffect(d)
                 /\ d \in Range(pending_for_safes')]_vars

\* The transaction of an execTransaction call is open: its SafeStatus and
\* MultisigTransaction are written and not visible, a call processed before
\* has its rows stored.
C29_Witness ==
    /\ processor_task.pc = "applied"
    /\ Head(processor_task.queue).function_name = "execTransaction"
    /\ Val(processor_task.written).safe_statuses # safe_statuses
    /\ Val(processor_task.written).multisig_txs # multisig_txs
    /\ ~HasEffect(Head(processor_task.queue))
    /\ \E d \in decoded_txs : d.processed /\ d.function_name = "execTransaction"

\* One run of the processor over the queue it read.
RECURSIVE RunQueue(_, _)
RunQueue(db, queue) ==
    IF queue = <<>> THEN db
    ELSE RunQueue(process_decoded(db, InternalTxOf(db.internal_txs, Head(queue)),
                                  Head(queue)),
                  Tail(queue))

\* Runs of the processor until the pending queue is empty (at most `runs`).
RECURSIVE Drain(_, _)
Drain(db, runs) ==
    LET queue == OrderBy(PendingRows(db.decoded_txs, db.internal_txs, db.safe_contracts))
    IN  IF queue = <<>> \/ runs = 0 THEN db
        ELSE Drain(RunQueue(db, queue), runs - 1)

\* The database after the indexer went over the whole chain and before the
\* processor has run.
IndexedOnly ==
    [Database EXCEPT !.decoded_txs = { [d EXCEPT !.processed = FALSE] : d \in @ },
                     !.safe_statuses = {}, !.multisig_txs = {},
                     !.multisig_confirmations = {}, !.module_txs = {},
                     !.safe_contracts = {}]

\* The chain is indexed and the processor has emptied the queue.
Drained ==
    /\ Cardinality(ethereum_txs) = Len(TxHashes)
    /\ processor_task.pc = "idle"
    /\ pending_for_safes = <<>>

\* C30: from an empty database and the same chain, the final SafeStatus,
\* MultisigTransaction, MultisigConfirmation and ModuleTransaction rows are
\* the same for every choice of indexer batches and every interleaving of
\* the indexer and the processor: they are the rows of indexing the whole
\* chain first and running the processor afterwards.
C30_DeterministicReplay ==
    Drained =>
        LET final == Drain(IndexedOnly, Cardinality(decoded_txs))
        IN  /\ safe_statuses = final.safe_statuses
            /\ multisig_txs = final.multisig_txs
            /\ multisig_confirmations = final.multisig_confirmations
            /\ module_txs = final.module_txs

\* A chain with a setup, an execution and a module transaction of the Safe,
\* indexed and processed to the end.
C30_Witness ==
    /\ Drained
    /\ Cardinality(safe_statuses) = 2
    /\ multisig_txs # {}
    /\ module_txs # {}
    /\ \A d \in decoded_txs : d.processed

(***************************************************************************)
(* Claims about the conversion of a trace (checked under SpecTrace).       *)
(***************************************************************************)
\* The string s spells the lower-case word, each letter in either case.
SameWord(s, word) ==
    /\ Len(s) = Len(word)
    /\ \A i \in 1..Len(s) :
          \/ s[i] = word[i]
          \/ \E k \in 1..Len(LowerLetters) :
                LowerLetters[k] = word[i] /\ UpperLetters[k] = s[i]

\* The value is present and not empty (not zero).
Given(v) == v # NULL /\ v # Some("")

GivenNumber(v) == v # NULL /\ v # Some(0)

\* C31: build_from_trace maps callType delegatecall and delegatecode, in any
\* letter case, to DELEGATE_CALL, call to CALL and a missing or unknown
\* callType to no call type; type call, create, suicide to CALL, CREATE,
\* SELF_DESTRUCT and rejects any other type; to is action.to or else
\* action.address; value is action.value or else action.balance or else 0;
\* data is action.input or else action.init; trace_address is the
\* comma-joined traceAddress, the root being the empty string.
C31_BuildFromTrace ==
    method_call.op = "build_from_trace" =>
        LET trace == method_call.trace
            action == trace.action
            returned == method_call.returned
            isCall == SameWord(trace.type, CallStr)
            isCreate == SameWord(trace.type, lower(CREATEStr))
            isSuicide == SameWord(trace.type, lower(SUICIDEStr))
        IN  /\ returned.raised <=> ~(isCall \/ isCreate \/ isSuicide)
            /\ ~returned.raised =>
                  LET internal_tx == returned.internal_tx
                  IN  /\ isCall => internal_tx.tx_type = 0
                      /\ isCreate => internal_tx.tx_type = 1
                      /\ isSuicide => internal_tx.tx_type = 2
                      /\ internal_tx.call_type =
                            IF \/ SameWord(action.callType, DelegatecallStr)
                               \/ SameWord(action.callType, DelegatecodeStr)
                            THEN Some(DELEGATE_CALL)
                            ELSE IF SameWord(action.callType, CallStr) THEN Some(CALL)
                            ELSE NULL
                      /\ internal_tx.to = IF Given(action.to) THEN action.to
                                          ELSE action.address
                      /\ internal_tx.value =
                            IF GivenNumber(action.value) THEN action.value
                            ELSE IF GivenNumber(action.balance) THEN action.balance
                            ELSE Some(0)
                      /\ internal_tx.data = IF Given(action.input) THEN action.input
                                            ELSE action.init
                      /\ TraceAddressOf(internal_tx.trace_address) = trace.traceAddress
                      /\ trace.traceAddress = <<>> => internal_tx.trace_address = <<>>
                      /\ trace.traceAddress = <<1, 0>>
                            => internal_tx.trace_address = <<"1", ",", "0">>

\* A self-destruct frame with callType DELEGATECODE is converted: the
\* address, the balance and the init code fill to, value and data.
C31_Witness ==
    /\ method_call.op = "build_from_trace"
    /\ method_call.trace.type = lower(SUICIDEStr)
    /\ method_call.trace.action.callType = upper(DelegatecodeStr)
    /\ method_call.trace.action.to = NULL
    /\ method_call.trace.action.value = NULL
    /\ method_call.trace.action.input = Some("")
    /\ method_call.trace.traceAddress = <<1, 0>>
    /\ ~method_call.returned.raised
    /\ method_call.returned.internal_tx.call_type = Some(DELEGATE_CALL)
    /\ method_call.returned.internal_tx.tx_type = SELF_DESTRUCT
    /\ method_call.returned.internal_tx.to = Some("0x5afe")
    /\ method_call.returned.internal_tx.value = Some(7)
    /\ method_call.returned.internal_tx.data = Some("0x6080")

(***************************************************************************)
(* Claims about the transfer logs (checked under SpecTransfers, SpecEvents)*)
(***************************************************************************)
\* The stored logs with the Transfer topic.
TransferLogs == { event \in ethereum_events : event.topic = ERC20_721_TRANSFER_TOPIC }

\* C32: a stored Transfer log is an ERC-20 transfer exactly when its
\* arguments carry value and an ERC-721 transfer exactly when they carry
\* tokenId, and is_erc20 / is_erc721 agree with the filters erc20_events /
\* erc721_events on every event.
C32_TransferClassification ==
    /\ \A event \in TransferLogs :
          /\ is_erc20(event) <=> HasKey(event.arguments, "value")
          /\ is_erc721(event) <=> HasKey(event.arguments, "tokenId")
    /\ method_call.op = "erc20_events" /\ method_call.token_address = NULL
           /\ method_call.address = NULL
          => \A event \in ethereum_events :
                is_erc20(event) <=> event \in method_call.returned
    /\ method_call.op = "erc721_events" /\ method_call.token_address = NULL
           /\ method_call.address = NULL
          => \A event \in ethereum_events :
                is_erc721(event) <=> event \in method_call.returned

\* C39: get_or_create_erc20_or_721_event raises ValueError only for a decoded
\* event whose args carry neither value nor tokenId; otherwise it returns the
\* stored event of that (ethereum_tx, log_index) or creates it, and no
\* second row of a log is ever created.
C39_GetOrCreateEvent ==
    /\ \A e, f \in ethereum_events : EventKey(e) = EventKey(f) => e = f
    /\ method_call.op = "get_or_create_erc20_or_721_event" =>
          LET decoded_event == method_call.decoded_event
              event == from_decoded_event(decoded_event)
              stored == { e \in method_call.before : EventKey(e) = EventKey(event) }
          IN  /\ method_call.raised
                    <=> /\ ~HasKey(decoded_event.args, "value")
                        /\ ~HasKey(decoded_event.args, "tokenId")
              /\ ~method_call.raised =>
                    /\ method_call.returned \in ethereum_events
                    /\ EventKey(method_call.returned) = EventKey(event)
                    /\ stored # {} => method_call.returned \in stored
                                        /\ ethereum_events = method_call.before
                    /\ stored = {} => ethereum_events = method_call.before \cup {event}

(***************************************************************************)
(* Claims about the queries of the API (checked under SpecThreshold).      *)
(***************************************************************************)
\* C33: with_confirmations_required annotates an executed MultisigTransaction
\* of Safe S with the threshold of a SafeStatus of S recorded in its
\* executing ethereum tx, whatever SafeStatus rows other Safes have in that
\* ethereum tx; the annotation is null for a transaction without ethereum_tx.
C33_ConfirmationsRequired ==
    method_call.op = "with_confirmations_required" =>
        \A row \in method_call.returned :
            LET mt == row.multisig_tx
            IN  IF mt.ethereum_tx = NULL
                THEN row.confirmations_required = NULL
                ELSE \E s \in method_call.safe_statuses :
                        /\ s.address = mt.safe
                        /\ s.internal_tx[1] = Val(mt.ethereum_tx)
                        /\ row.confirmations_required = Some(s.threshold)

(***************************************************************************)
(* Claims about the blocks a discovery covers (checked under SpecFind).     *)
(***************************************************************************)
\* The block numbers an RPC call asks the node about.
CoveredBlocks(rpc) ==
    IF rpc.method = "trace_filter" THEN rpc.from_block..rpc.to_block
    ELSE Range(rpc.block_numbers)

\* C34: for every window [from, to] with from <= to and every head, each
\* block of the window is covered by a discovery query of
\* find_relevant_elements, no block outside the window is queried, and in
\* the hybrid case T_recent is the only block that trace_filter and
\* trace_block both cover.
C34_WindowCovered ==
    LET window == fre.from_block_number..fre.to_block_number
        filtered == UNION { CoveredBlocks(fre.log[i]) :
                              i \in { j \in 1..Len(fre.log) :
                                        fre.log[j].method = "trace_filter" } }
        traced == UNION { CoveredBlocks(fre.log[i]) :
                            i \in { j \in 1..Len(fre.log) :
                                      fre.log[j].method = "trace_blocks" } }
    IN  /\ fre.outcome # "none" => filtered \cup traced \subseteq window
        /\ fre.outcome = "returned" =>
              /\ window \subseteq filtered \cup traced
              /\ fre.from_block_number <= TRecent /\ TRecent <= fre.to_block_number
                    => filtered \cap traced = {TRecent}
              /\ ~(fre.from_block_number <= TRecent /\ TRecent <= fre.to_block_number)
                    => filtered \cap traced = {}

\* A hybrid discovery over a window with blocks on both sides of T_recent.
C34_Witness ==
    /\ fre.outcome = "returned"
    /\ fre.from_block_number < TRecent
    /\ TRecent < fre.to_block_number
    /\ \E i, j \in 1..Len(fre.log) :
          /\ fre.log[i].method = "trace_filter"
          /\ fre.log[j].method = "trace_blocks"
          /\ TRecent \in CoveredBlocks(fre.log[i]) \cap CoveredBlocks(fre.log[j])

(***************************************************************************)
(* Claims about re-indexing (checked under SpecIndex).                     *)
(***************************************************************************)
\* C35: process_elements never changes an InternalTxDecoded row that exists:
\* it never resets processed from true to false and never rewrites
\* function_name or arguments, so a decoded call the processor has consumed
\* is not queued again by the indexer.
C35_ReindexKeepsDecoded ==
    [][(\E tx_hashes \in Batches : process_elements(tx_hashes))
          => /\ \A d \in decoded_txs : d \in decoded_txs'
             /\ \A d \in decoded_txs :
                   d.processed =>
                       \A i \in 1..Len(pending_for_safes') :
                           pending_for_safes'[i].internal_tx # d.internal_tx]_vars

\* One transaction indexed, its decoded call consumed by the processor, the
\* other transaction not indexed yet: a batch of both re-indexes the first.
C35_Witness ==
    /\ Cardinality(ethereum_txs) = 1
    /\ \E d \in decoded_txs : d.processed /\ d.function_name = "setup"
    /\ \E i \in 1..Len(chain.traces) :
          \A t \in ethereum_txs : chain.traces[i].transactionHash # t.tx_hash

(***************************************************************************)
(* Claims about concurrent indexer tasks (checked under SpecConcurrent).   *)
(***************************************************************************)
\* The tables a single task leaves that processes `tx_hashes` on an empty store.
SingleTask(tx_hashes) ==
    LET txs == txs_create_or_update_from_tx_hashes({}, tx_hashes)
        traces == trace_transactions(tx_hashes)
        batch == Concat([i \in 1..Len(tx_hashes) |->
                           [j \in 1..Len(traces[i]) |->
                               InternalTxOfFrame(traces[i][j], txs.rows[i])]])
        stored == bulk_create_ignore_conflicts({}, batch)
    IN  [internal_txs |-> stored,
         decoded_txs |-> bulk_create_ignore_conflicts(
                             {}, DecodeBatch(stored, txs.table, batch))]

\* The hashes of both tasks, each once.
UnionOfHashes ==
    OrderedKeys(index_tasks["t1"].tx_hashes \o index_tasks["t2"].tx_hashes)

\* C36: two indexer tasks running process_elements at once over overlapping
\* tx hashes leave, in every interleaving, exactly one InternalTx per
\* (ethereum_tx, trace_address) and at most one InternalTxDecoded per
\* InternalTx, the rows a single task stores for the union of the hashes,
\* and neither task fails because of the inserts of the other.
C36_ConcurrentIndexers ==
    /\ \A r, q \in internal_txs : InternalTxKey(r) = InternalTxKey(q) => r = q
    /\ \A d, e \in decoded_txs : DecodedKey(d) = DecodedKey(e) => d = e
    /\ \A t \in Tasks : index_tasks[t].pc # "raised"
    /\ (\A t \in Tasks : index_tasks[t].pc = "returned") =>
          /\ internal_txs = SingleTask(UnionOfHashes).internal_txs
          /\ decoded_txs = SingleTask(UnionOfHashes).decoded_txs

(***************************************************************************)
(* Claims about null cursors (checked under SpecCursor).                   *)
(***************************************************************************)
\* The monitored addresses whose cursor tx_block_number is null in `reg`.
NullCursor(reg) == {a \in Addresses : IsNull(reg[a]["tx_block_number"])}

\* C37: a monitored address whose cursor tx_block_number is null is returned
\* by neither not_updated nor almost_updated on that cursor, and no
\* update_addresses changes it, whatever the arguments: under every
\* sequence of these operations the cursor stays null.
C37_NullCursorStays ==
    /\ reg_call.op = "update_addresses" =>
          /\ NullCursor(reg_call.before) \subseteq NullCursor(registry)
          /\ reg_call.database_field = "tx_block_number" =>
                \A a \in NullCursor(reg_call.before) : registry[a] = reg_call.before[a]
    /\ (/\ reg_call.op \in {"not_updated", "almost_updated"}
        /\ reg_call.database_field = "tx_block_number")
       => reg_call.returned \cap NullCursor(registry) = {}

\* A not_updated query on the cursor returned an address while another
\* address has a null cursor.
C37_Witness ==
    /\ reg_call.op = "not_updated"
    /\ reg_call.database_field = "tx_block_number"
    /\ reg_call.returned # {}
    /\ NullCursor(registry) # {}

(***************************************************************************)
(* Claims about the mined fields of EthereumTx (checked under SpecMined).  *)
(***************************************************************************)
\* C38: the mined fields of an EthereumTx are write-once:
\* update_with_block_and_receipt on a tx without a block sets block,
\* gas_used, logs, status and transaction_index from the block and the
\* receipt passed; on a tx that has a block it changes no field, whatever
\* block and receipt are passed.
C38_MinedFieldsWriteOnce ==
    method_call.op = "update_with_block_and_receipt" =>
        LET before == method_call.before
            self == method_call.self
            tx_receipt == method_call.tx_receipt
        IN  IF before.block = NULL
            THEN /\ self.tx_hash = before.tx_hash
                 /\ self.block = Some(method_call.ethereum_block)
                 /\ self.gas_used = Some(tx_receipt.gasUsed)
                 /\ Len(Val(self.logs)) =
                       (IF "logs" \in DOMAIN tx_receipt THEN Len(tx_receipt.logs) ELSE 0)
                 /\ \A i \in 1..Len(Val(self.logs)) :
                       \A k \in {"address", "data", "topics"} :
                          Val(self.logs)[i][k] = tx_receipt.logs[i][k]
                 /\ self.status = (IF "status" \in DOMAIN tx_receipt
                                   THEN Some(tx_receipt.status) ELSE NULL)
                 /\ self.transaction_index = Some(tx_receipt.transactionIndex)
                 /\ method_call.update_fields = MinedFields
            ELSE /\ self = before
                 /\ method_call.update_fields = {}

\* A second call on a mined tx with another block and another receipt
\* left the tx as it was.
C38_Witness ==
    /\ method_call.op = "update_with_block_and_receipt"
    /\ method_call.before.block # NULL
    /\ method_call.before.block # Some(method_call.ethereum_block)
    /\ method_call.before.gas_used # Some(method_call.tx_receipt.gasUsed)
    /\ method_call.self = method_call.before

====
